---------------------------- MODULE Spec2Model ----------------------------
(***************************************************************************)
(* AQUA maritime route planner: the pathfinding core (AStarPathfinder,     *)
(* MinHeap, NavigationGrid, EnvironmentalDataCache.getData) as a state     *)
(* machine.                                                                *)
(*                                                                         *)
(* Number representation.  The source computes in IEEE doubles; the model  *)
(* computes in integers with these units:                                  *)
(*   lat, lng          whole degrees                                       *)
(*   distance          km, rounded up (rounding up keeps the triangle      *)
(*                     inequality of the great-circle distance)            *)
(*   bearing           hundredths of a degree                              *)
(*   fuel, g, h, f     decilitres (0.1 L)                                  *)
(*   multipliers       thousandths (1000 = 1.0)                            *)
(*   speeds            mm/s (m/s fields), m/h (km/h fields)                *)
(*   wave height       mm;  ice concentration  thousandths                 *)
(* null is NoData, +Infinity is Infinity.                                  *)
(***************************************************************************)
EXTENDS Integers, Sequences, FiniteSets, TLC

\* ------------------------------------------------------------------ bounds
Cols == 4
Rows == 2
MaxLand == 3
MaxWater == 1

\* --------------------------------------------------------------- utilities
Null == <<>>
Some(v) == <<v>>

Abs(n) == IF n < 0 THEN -n ELSE n
Max(a, b) == IF a >= b THEN a ELSE b
Min(a, b) == IF a <= b THEN a ELSE b

\* floor(a * b / c) for a, b >= 0 and 0 < c < 46341 without leaving 32 bits
MulDiv(a, b, c) ==
    (a \div c) * b + (a % c) * (b \div c) + ((a % c) * (b % c)) \div c

RECURSIVE SqrtSearch(_, _, _)
SqrtSearch(n, lo, hi) ==
    IF lo >= hi THEN lo
    ELSE LET mid == (lo + hi + 1) \div 2
         IN IF mid * mid <= n THEN SqrtSearch(n, mid, hi)
                              ELSE SqrtSearch(n, lo, mid - 1)

\* floor(sqrt(n)) for 0 <= n < 2^31
ISqrt(n) == SqrtSearch(n, 0, 46340)

RECURSIVE Reverse(_)
Reverse(s) == IF s = <<>> THEN <<>> ELSE Append(Reverse(Tail(s)), Head(s))

Range(s) == {s[i] : i \in DOMAIN s}

\* ------------------------------------------------- NavigationGrid (inputs)
NoData == -9999
Infinity == 1000000000

strategies == <<"balanced", "fastest", "safest">>

\* gridData.bounds and gridData.resolution of the grid file: cells of 2 x 2
\* degrees whose south-west corner lies on the equator at longitude 0.
GridGeometry == [bounds |-> [west |-> 0, south |-> 0], resolution |-> 2]

\* new NavigationGrid(gridData): grid[x][y] is 1 for land and 0 for water
NavigationGrid(gridData) ==
    [grid |-> gridData.grid, bounds |-> gridData.bounds,
     resolution |-> gridData.resolution,
     cols |-> Cardinality(DOMAIN gridData.grid),
     rows |-> Cardinality(DOMAIN gridData.grid[0])]

\* faulty variant: coordinates outside the grid are clamped to its border cells
latLngToGrid_Clamped(landGrid, latlng) ==
    [x |-> Max(0, Min(landGrid.cols - 1,
                      (latlng.lng - landGrid.bounds.west) \div landGrid.resolution)),
     y |-> Max(0, Min(landGrid.rows - 1,
                      (latlng.lat - landGrid.bounds.south) \div landGrid.resolution))]

latLngToGrid(landGrid, latlng) ==
    [x |-> (latlng.lng - landGrid.bounds.west) \div landGrid.resolution,
     y |-> (latlng.lat - landGrid.bounds.south) \div landGrid.resolution]

gridToLatLng(landGrid, x, y) ==
    [lat |-> y * landGrid.resolution + landGrid.bounds.south,
     lng |-> x * landGrid.resolution + landGrid.bounds.west]

\* Great-circle geometry of Math.sin/cos/atan2 on the sphere, tabulated from
\* calculateDistance and calculateBearing for the latitudes and longitude
\* differences of the grid: <<lat1, lat2, lng2 - lng1>> :>
\* <<distance km (rounded up), bearing, 1000 sin(bearing), 1000 cos(bearing)>>
GreatCircle ==
    <<0, 0, -8>> :> <<890, 27000, -1000, 0>> @@ <<0, 0, -6>> :> <<668, 27000, -1000, 0>> @@
    <<0, 0, -4>> :> <<445, 27000, -1000, 0>> @@ <<0, 0, -2>> :> <<223, 27000, -1000, 0>> @@
    <<0, 0, 0>> :> <<0, 0, 0, 1000>> @@ <<0, 0, 2>> :> <<223, 9000, 1000, 0>> @@
    <<0, 0, 4>> :> <<445, 9000, 1000, 0>> @@ <<0, 0, 6>> :> <<668, 9000, 1000, 0>> @@
    <<0, 0, 8>> :> <<890, 9000, 1000, 0>> @@ <<0, 2, -8>> :> <<917, 28409, -970, 243>> @@
    <<0, 2, -6>> :> <<704, 28847, -948, 317>> @@ <<0, 2, -4>> :> <<498, 29659, -894, 448>> @@
    <<0, 2, -2>> :> <<315, 31502, -707, 707>> @@ <<0, 2, 0>> :> <<223, 0, 0, 1000>> @@
    <<0, 2, 2>> :> <<315, 4498, 707, 707>> @@ <<0, 2, 4>> :> <<498, 6341, 894, 448>> @@
    <<0, 2, 6>> :> <<704, 7153, 948, 317>> @@ <<0, 2, 8>> :> <<917, 7591, 970, 243>> @@
    <<0, 4, -8>> :> <<994, 29668, -894, 449>> @@ <<0, 4, -6>> :> <<802, 30378, -831, 556>> @@
    <<0, 4, -4>> :> <<629, 31507, -706, 708>> @@ <<0, 4, -2>> :> <<498, 33348, -447, 895>> @@
    <<0, 4, 0>> :> <<445, 0, 0, 1000>> @@ <<0, 4, 2>> :> <<498, 2652, 447, 895>> @@
    <<0, 4, 4>> :> <<629, 4493, 706, 708>> @@ <<0, 4, 6>> :> <<802, 5622, 831, 556>> @@
    <<0, 4, 8>> :> <<994, 6332, 894, 449>> @@ <<0, 6, -8>> :> <<1111, 30706, -798, 603>> @@
    <<0, 6, -6>> :> <<943, 31516, -705, 709>> @@ <<0, 6, -4>> :> <<802, 32643, -553, 833>> @@
    <<0, 6, -2>> :> <<704, 34163, -315, 949>> @@ <<0, 6, 0>> :> <<668, 0, 0, 1000>> @@
    <<0, 6, 2>> :> <<704, 1837, 315, 949>> @@ <<0, 6, 4>> :> <<802, 3357, 553, 833>> @@
    <<0, 6, 6>> :> <<943, 4484, 705, 709>> @@ <<0, 6, 8>> :> <<1111, 5294, 798, 603>> @@
    <<0, 8, -8>> :> <<1256, 31528, -704, 711>> @@ <<0, 8, -6>> :> <<1111, 32336, -597, 802>> @@
    <<0, 8, -4>> :> <<994, 33360, -445, 896>> @@ <<0, 8, -2>> :> <<917, 34605, -241, 971>> @@
    <<0, 8, 0>> :> <<890, 0, 0, 1000>> @@ <<0, 8, 2>> :> <<917, 1395, 241, 971>> @@
    <<0, 8, 4>> :> <<994, 2640, 445, 896>> @@ <<0, 8, 6>> :> <<1111, 3664, 597, 802>> @@
    <<0, 8, 8>> :> <<1256, 4472, 704, 711>> @@ <<2, 0, -8>> :> <<917, 25605, -971, -241>> @@
    <<2, 0, -6>> :> <<704, 25163, -949, -315>> @@ <<2, 0, -4>> :> <<498, 24348, -895, -447>> @@
    <<2, 0, -2>> :> <<315, 22502, -707, -707>> @@ <<2, 0, 0>> :> <<223, 18000, 0, -1000>> @@
    <<2, 0, 2>> :> <<315, 13498, 707, -707>> @@ <<2, 0, 4>> :> <<498, 11652, 895, -447>> @@
    <<2, 0, 6>> :> <<704, 10837, 949, -315>> @@ <<2, 0, 8>> :> <<917, 10395, 971, -241>> @@
    <<2, 2, -8>> :> <<890, 27014, -1000, 2>> @@ <<2, 2, -6>> :> <<667, 27010, -1000, 2>> @@
    <<2, 2, -4>> :> <<445, 27007, -1000, 1>> @@ <<2, 2, -2>> :> <<223, 27003, -1000, 1>> @@
    <<2, 2, 0>> :> <<0, 0, 0, 1000>> @@ <<2, 2, 2>> :> <<223, 8997, 1000, 1>> @@
    <<2, 2, 4>> :> <<445, 8993, 1000, 1>> @@ <<2, 2, 6>> :> <<667, 8990, 1000, 2>> @@
    <<2, 2, 8>> :> <<890, 8986, 1000, 2>> @@ <<2, 4, -8>> :> <<916, 28424, -969, 246>> @@
    <<2, 4, -6>> :> <<703, 28860, -948, 319>> @@ <<2, 4, -4>> :> <<497, 29669, -893, 449>> @@
    <<2, 4, -2>> :> <<315, 31509, -706, 708>> @@ <<2, 4, 0>> :> <<223, 0, 0, 1000>> @@
    <<2, 4, 2>> :> <<315, 4491, 706, 708>> @@ <<2, 4, 4>> :> <<497, 6331, 893, 449>> @@
    <<2, 4, 6>> :> <<703, 7140, 948, 319>> @@ <<2, 4, 8>> :> <<916, 7576, 969, 246>> @@
    <<2, 6, -8>> :> <<993, 29686, -892, 452>> @@ <<2, 6, -6>> :> <<801, 30393, -830, 558>> @@
    <<2, 6, -4>> :> <<629, 31519, -705, 709>> @@ <<2, 6, -2>> :> <<498, 33355, -445, 895>> @@
    <<2, 6, 0>> :> <<445, 0, 0, 1000>> @@ <<2, 6, 2>> :> <<498, 2645, 445, 895>> @@
    <<2, 6, 4>> :> <<629, 4481, 705, 709>> @@ <<2, 6, 6>> :> <<801, 5607, 830, 558>> @@
    <<2, 6, 8>> :> <<993, 6314, 892, 452>> @@ <<2, 8, -8>> :> <<1109, 30727, -796, 606>> @@
    <<2, 8, -6>> :> <<942, 31533, -703, 711>> @@ <<2, 8, -4>> :> <<801, 32656, -551, 834>> @@
    <<2, 8, -2>> :> <<703, 34171, -314, 949>> @@ <<2, 8, 0>> :> <<668, 0, 0, 1000>> @@
    <<2, 8, 2>> :> <<703, 1829, 314, 949>> @@ <<2, 8, 4>> :> <<801, 3344, 551, 834>> @@
    <<2, 8, 6>> :> <<942, 4467, 703, 711>> @@ <<2, 8, 8>> :> <<1109, 5273, 796, 606>> @@
    <<4, 0, -8>> :> <<994, 24360, -896, -445>> @@ <<4, 0, -6>> :> <<802, 23643, -833, -553>> @@
    <<4, 0, -4>> :> <<629, 22507, -708, -706>> @@ <<4, 0, -2>> :> <<498, 20659, -448, -894>> @@
    <<4, 0, 0>> :> <<445, 18000, 0, -1000>> @@ <<4, 0, 2>> :> <<498, 15341, 448, -894>> @@
    <<4, 0, 4>> :> <<629, 13493, 708, -706>> @@ <<4, 0, 6>> :> <<802, 12357, 833, -553>> @@
    <<4, 0, 8>> :> <<994, 11640, 896, -445>> @@ <<4, 2, -8>> :> <<916, 25618, -971, -239>> @@
    <<4, 2, -6>> :> <<703, 25172, -950, -314>> @@ <<4, 2, -4>> :> <<497, 24352, -895, -446>> @@
    <<4, 2, -2>> :> <<315, 22502, -707, -707>> @@ <<4, 2, 0>> :> <<223, 18000, 0, -1000>> @@
    <<4, 2, 2>> :> <<315, 13498, 707, -707>> @@ <<4, 2, 4>> :> <<497, 11648, 895, -446>> @@
    <<4, 2, 6>> :> <<703, 10828, 950, -314>> @@ <<4, 2, 8>> :> <<916, 10382, 971, -239>> @@
    <<4, 4, -8>> :> <<888, 27028, -1000, 5>> @@ <<4, 4, -6>> :> <<666, 27021, -1000, 4>> @@
    <<4, 4, -4>> :> <<444, 27014, -1000, 2>> @@ <<4, 4, -2>> :> <<222, 27007, -1000, 1>> @@
    <<4, 4, 0>> :> <<0, 0, 0, 1000>> @@ <<4, 4, 2>> :> <<222, 8993, 1000, 1>> @@
    <<4, 4, 4>> :> <<444, 8986, 1000, 2>> @@ <<4, 4, 6>> :> <<666, 8979, 1000, 4>> @@
    <<4, 4, 8>> :> <<888, 8972, 1000, 5>> @@ <<4, 6, -8>> :> <<914, 28441, -969, 249>> @@
    <<4, 6, -6>> :> <<701, 28875, -947, 321>> @@ <<4, 6, -4>> :> <<496, 29682, -892, 451>> @@
    <<4, 6, -2>> :> <<314, 31519, -705, 709>> @@ <<4, 6, 0>> :> <<223, 0, 0, 1000>> @@
    <<4, 6, 2>> :> <<314, 4481, 705, 709>> @@ <<4, 6, 4>> :> <<496, 6318, 892, 451>> @@
    <<4, 6, 6>> :> <<701, 7125, 947, 321>> @@ <<4, 6, 8>> :> <<914, 7559, 969, 249>> @@
    <<4, 8, -8>> :> <<991, 29707, -890, 455>> @@ <<4, 8, -6>> :> <<799, 30412, -828, 561>> @@
    <<4, 8, -4>> :> <<628, 31535, -703, 711>> @@ <<4, 8, -2>> :> <<497, 33366, -444, 896>> @@
    <<4, 8, 0>> :> <<445, 0, 0, 1000>> @@ <<4, 8, 2>> :> <<497, 2634, 444, 896>> @@
    <<4, 8, 4>> :> <<628, 4465, 703, 711>> @@ <<4, 8, 6>> :> <<799, 5588, 828, 561>> @@
    <<4, 8, 8>> :> <<991, 6293, 890, 455>> @@ <<6, 0, -8>> :> <<1111, 23336, -802, -597>> @@
    <<6, 0, -6>> :> <<943, 22516, -709, -705>> @@ <<6, 0, -4>> :> <<802, 21378, -556, -831>> @@
    <<6, 0, -2>> :> <<704, 19847, -317, -948>> @@ <<6, 0, 0>> :> <<668, 18000, 0, -1000>> @@
    <<6, 0, 2>> :> <<704, 16153, 317, -948>> @@ <<6, 0, 4>> :> <<802, 14622, 556, -831>> @@
    <<6, 0, 6>> :> <<943, 13484, 709, -705>> @@ <<6, 0, 8>> :> <<1111, 12664, 802, -597>> @@
    <<6, 2, -8>> :> <<993, 24370, -896, -443>> @@ <<6, 2, -6>> :> <<801, 23648, -834, -552>> @@
    <<6, 2, -4>> :> <<629, 22509, -708, -706>> @@ <<6, 2, -2>> :> <<498, 20659, -448, -894>> @@
    <<6, 2, 0>> :> <<445, 18000, 0, -1000>> @@ <<6, 2, 2>> :> <<498, 15341, 448, -894>> @@
    <<6, 2, 4>> :> <<629, 13491, 708, -706>> @@ <<6, 2, 6>> :> <<801, 12352, 834, -552>> @@
    <<6, 2, 8>> :> <<993, 11630, 896, -443>> @@ <<6, 4, -8>> :> <<914, 25628, -971, -237>> @@
    <<6, 4, -6>> :> <<701, 25178, -950, -313>> @@ <<6, 4, -4>> :> <<496, 24353, -895, -446>> @@
    <<6, 4, -2>> :> <<314, 22498, -707, -707>> @@ <<6, 4, 0>> :> <<223, 18000, 0, -1000>> @@
    <<6, 4, 2>> :> <<314, 13502, 707, -707>> @@ <<6, 4, 4>> :> <<496, 11647, 895, -446>> @@
    <<6, 4, 6>> :> <<701, 10822, 950, -313>> @@ <<6, 4, 8>> :> <<914, 10372, 971, -237>> @@
    <<6, 6, -8>> :> <<885, 27042, -1000, 7>> @@ <<6, 6, -6>> :> <<664, 27031, -1000, 5>> @@
    <<6, 6, -4>> :> <<443, 27021, -1000, 4>> @@ <<6, 6, -2>> :> <<222, 27010, -1000, 2>> @@
    <<6, 6, 0>> :> <<0, 0, 0, 1000>> @@ <<6, 6, 2>> :> <<222, 8990, 1000, 2>> @@
    <<6, 6, 4>> :> <<443, 8979, 1000, 4>> @@ <<6, 6, 6>> :> <<664, 8969, 1000, 5>> @@
    <<6, 6, 8>> :> <<885, 8958, 1000, 7>> @@ <<6, 8, -8>> :> <<911, 28460, -968, 252>> @@
    <<6, 8, -6>> :> <<699, 28891, -946, 324>> @@ <<6, 8, -4>> :> <<495, 29697, -891, 454>> @@
    <<6, 8, -2>> :> <<314, 31533, -703, 711>> @@ <<6, 8, 0>> :> <<223, 0, 0, 1000>> @@
    <<6, 8, 2>> :> <<314, 4467, 703, 711>> @@ <<6, 8, 4>> :> <<495, 6303, 891, 454>> @@
    <<6, 8, 6>> :> <<699, 7109, 946, 324>> @@ <<6, 8, 8>> :> <<911, 7540, 968, 252>> @@
    <<8, 0, -8>> :> <<1256, 22528, -711, -704>> @@ <<8, 0, -6>> :> <<1111, 21706, -603, -798>> @@
    <<8, 0, -4>> :> <<994, 20668, -449, -894>> @@ <<8, 0, -2>> :> <<917, 19409, -243, -970>> @@
    <<8, 0, 0>> :> <<890, 18000, 0, -1000>> @@ <<8, 0, 2>> :> <<917, 16591, 243, -970>> @@
    <<8, 0, 4>> :> <<994, 15332, 449, -894>> @@ <<8, 0, 6>> :> <<1111, 14294, 603, -798>> @@
    <<8, 0, 8>> :> <<1256, 13472, 711, -704>> @@ <<8, 2, -8>> :> <<1109, 23343, -803, -596>> @@
    <<8, 2, -6>> :> <<942, 22519, -709, -705>> @@ <<8, 2, -4>> :> <<801, 21379, -556, -831>> @@
    <<8, 2, -2>> :> <<703, 19847, -317, -949>> @@ <<8, 2, 0>> :> <<668, 18000, 0, -1000>> @@
    <<8, 2, 2>> :> <<703, 16153, 317, -949>> @@ <<8, 2, 4>> :> <<801, 14621, 556, -831>> @@
    <<8, 2, 6>> :> <<942, 13481, 709, -705>> @@ <<8, 2, 8>> :> <<1109, 12657, 803, -596>> @@
    <<8, 4, -8>> :> <<991, 24377, -897, -442>> @@ <<8, 4, -6>> :> <<799, 23651, -834, -552>> @@
    <<8, 4, -4>> :> <<628, 22507, -708, -706>> @@ <<8, 4, -2>> :> <<497, 20655, -447, -895>> @@
    <<8, 4, 0>> :> <<445, 18000, 0, -1000>> @@ <<8, 4, 2>> :> <<497, 15345, 447, -895>> @@
    <<8, 4, 4>> :> <<628, 13493, 708, -706>> @@ <<8, 4, 6>> :> <<799, 12349, 834, -552>> @@
    <<8, 4, 8>> :> <<991, 11623, 897, -442>> @@ <<8, 6, -8>> :> <<911, 25637, -972, -236>> @@
    <<8, 6, -6>> :> <<699, 25182, -950, -312>> @@ <<8, 6, -4>> :> <<495, 24352, -895, -446>> @@
    <<8, 6, -2>> :> <<314, 22491, -706, -708>> @@ <<8, 6, 0>> :> <<223, 18000, 0, -1000>> @@
    <<8, 6, 2>> :> <<314, 13509, 706, -708>> @@ <<8, 6, 4>> :> <<495, 11648, 895, -446>> @@
    <<8, 6, 6>> :> <<699, 10818, 950, -312>> @@ <<8, 6, 8>> :> <<911, 10363, 972, -236>> @@
    <<8, 8, -8>> :> <<881, 27056, -1000, 10>> @@ <<8, 8, -6>> :> <<661, 27042, -1000, 7>> @@
    <<8, 8, -4>> :> <<441, 27028, -1000, 5>> @@ <<8, 8, -2>> :> <<221, 27014, -1000, 2>> @@
    <<8, 8, 0>> :> <<0, 0, 0, 1000>> @@ <<8, 8, 2>> :> <<221, 8986, 1000, 2>> @@
    <<8, 8, 4>> :> <<441, 8972, 1000, 5>> @@ <<8, 8, 6>> :> <<661, 8958, 1000, 7>> @@
    <<8, 8, 8>> :> <<881, 8944, 1000, 10>>


calculateDistance(a, b, grid) ==
    LET p1 == gridToLatLng(grid, a.x, a.y)
        p2 == gridToLatLng(grid, b.x, b.y)
    IN GreatCircle[<<p1.lat, p2.lat, p2.lng - p1.lng>>][1]

calculateBearing(a, b, grid) ==
    LET p1 == gridToLatLng(grid, a.x, a.y)
        p2 == gridToLatLng(grid, b.x, b.y)
    IN GreatCircle[<<p1.lat, p2.lat, p2.lng - p1.lng>>][2]

\* Math.sin and Math.cos of the bearing of the segment a -> b, in thousandths
sinBearing(a, b, grid) ==
    LET p1 == gridToLatLng(grid, a.x, a.y)
        p2 == gridToLatLng(grid, b.x, b.y)
    IN GreatCircle[<<p1.lat, p2.lat, p2.lng - p1.lng>>][3]

cosBearing(a, b, grid) ==
    LET p1 == gridToLatLng(grid, a.x, a.y)
        p2 == gridToLatLng(grid, b.x, b.y)
    IN GreatCircle[<<p1.lat, p2.lat, p2.lng - p1.lng>>][4]

\* the map key `${x},${y}` of a node
Key(node) == <<node.x, node.y>>

isLand(grid, node) == grid.grid[node.x][node.y] = 1

\* ------------------------------------------------------------ getNeighbors
\* faulty variant: the four diagonal offsets are missing
NeighborOffsets_Orthogonal ==
    << <<-1, 0>>, <<0, -1>>, <<0, 1>>, <<1, 0>> >>

\* the offsets (i, j) in the order of the two nested loops
NeighborOffsets ==
    << <<-1, -1>>, <<-1, 0>>, <<-1, 1>>, <<0, -1>>, <<0, 1>>,
       <<1, -1>>, <<1, 0>>, <<1, 1>> >>

\* faulty variant: diagonal steps are never suppressed
NeighborAt_NoCornerRule(node, grid, i, j) ==
    LET newY == node.y + j
        newX == (node.x + i + grid.cols) % grid.cols
    IN IF newY < 0 \/ newY >= grid.rows THEN Null
       ELSE Some([x |-> newX, y |-> newY])

\* faulty variant: a diagonal step is dropped when either adjacent cell is land
NeighborAt_EitherCorner(node, grid, i, j) ==
    LET newY == node.y + j
        newX == (node.x + i + grid.cols) % grid.cols
    IN IF newY < 0 \/ newY >= grid.rows THEN Null
       ELSE IF i # 0 /\ j # 0
               /\ (\/ grid.grid[(node.x + i + grid.cols) % grid.cols][node.y] = 1
                   \/ grid.grid[node.x][node.y + j] = 1) THEN Null
       ELSE Some([x |-> newX, y |-> newY])

\* the neighbour for one offset, or Null when the loop body hits `continue`
NeighborAt(node, grid, i, j) ==
    LET newY == node.y + j
        newX == (node.x + i + grid.cols) % grid.cols
    IN IF newY < 0 \/ newY >= grid.rows THEN Null
       ELSE IF i # 0 /\ j # 0
               /\ grid.grid[(node.x + i + grid.cols) % grid.cols][node.y] = 1
               /\ grid.grid[node.x][node.y + j] = 1 THEN Null
       ELSE Some([x |-> newX, y |-> newY])

RECURSIVE NeighborsFrom(_, _, _)
NeighborsFrom(node, grid, k) ==
    IF k > Len(NeighborOffsets) THEN <<>>
    ELSE NeighborAt(node, grid, NeighborOffsets[k][1], NeighborOffsets[k][2])
         \o NeighborsFrom(node, grid, k + 1)

getNeighbors(node, grid) == NeighborsFrom(node, grid, 1)

\* ----------------------------------------------------------------- MinHeap
\* this.heap is a JavaScript array; index i of the source is i + 1 here
Swap(heap, i, j) == [heap EXCEPT ![i + 1] = heap[j + 1], ![j + 1] = heap[i + 1]]

RECURSIVE bubbleUpFrom(_, _)
bubbleUpFrom(heap, index) ==
    IF index <= 0 THEN heap
    ELSE LET parentIndex == (index - 1) \div 2
         IN IF heap[index + 1].f >= heap[parentIndex + 1].f THEN heap
            ELSE bubbleUpFrom(Swap(heap, index, parentIndex), parentIndex)

bubbleUp(heap) == bubbleUpFrom(heap, Len(heap) - 1)

RECURSIVE sinkDown(_, _)
sinkDown(heap, index) ==
    LET length == Len(heap)
        node == heap[index + 1]
        leftChildIdx == 2 * index + 1
        rightChildIdx == 2 * index + 2
        swap1 == IF leftChildIdx < length /\ heap[leftChildIdx + 1].f < node.f
                 THEN leftChildIdx ELSE -1
        swap2 == IF rightChildIdx < length
                    /\ ((swap1 = -1 /\ heap[rightChildIdx + 1].f < node.f)
                        \/ (swap1 # -1
                            /\ heap[rightChildIdx + 1].f < heap[swap1 + 1].f))
                 THEN rightChildIdx ELSE swap1
    IN IF swap2 = -1 THEN heap
       ELSE sinkDown(Swap(heap, index, swap2), swap2)

HeapPush(heap, node) == bubbleUp(Append(heap, node))

\* faulty variant: the last entry is moved to the root and left there
HeapPop_NoSink(heap) ==
    LET end == heap[Len(heap)]
        rest == SubSeq(heap, 1, Len(heap) - 1)
    IN IF Len(rest) > 0 THEN [rest EXCEPT ![1] = end] ELSE rest

\* pop(): the heap after the call; the value returned is heap[1]
HeapPop(heap) ==
    LET end == heap[Len(heap)]
        rest == SubSeq(heap, 1, Len(heap) - 1)
    IN IF Len(rest) > 0 THEN sinkDown([rest EXCEPT ![1] = end], 0) ELSE rest

\* the value pop() returns: this.heap[0], undefined on an empty array
HeapMin(heap) == IF Len(heap) > 0 THEN Some(heap[1]) ELSE Null

\* --------------------------------------------------- findPathToNearestWater
\* a point of a path as the bridge search and the A* reconstruction emit it
PathPoint(grid, node, fuel) ==
    LET ll == gridToLatLng(grid, node.x, node.y)
    IN [lat |-> ll.lat, lng |-> ll.lng, onLand |-> isLand(grid, node),
        totalFuel |-> fuel]

\* the `while (temp)` loop over the parent links: node first, root last
RECURSIVE BfsChain(_, _)
BfsChain(node, grid) ==
    <<PathPoint(grid, node, 0)>>
    \o (IF node.parent = Null THEN <<>> ELSE BfsChain(node.parent[1], grid))

\* faulty variant: the start cell is not marked visited when it is enqueued
BfsInit_Unvisited(startNode) ==
    [queue |-> <<[x |-> startNode.x, y |-> startNode.y, parent |-> Null]>>,
     visited |-> {},
     done |-> FALSE, result |-> Null]

BfsInit(startNode) ==
    [queue |-> <<[x |-> startNode.x, y |-> startNode.y, parent |-> Null]>>,
     visited |-> {Key(startNode)},
     done |-> FALSE, result |-> Null]

\* the `for (const neighbor of neighbors)` loop of the bridge search
RECURSIVE BfsVisit(_, _, _, _)
BfsVisit(s, currentNode, neighbors, k) ==
    IF k > Len(neighbors) THEN s
    ELSE LET neighbor == neighbors[k]
         IN IF Key(neighbor) \notin s.visited
            THEN BfsVisit([s EXCEPT !.visited = @ \cup {Key(neighbor)},
                                    !.queue = Append(@, [x |-> neighbor.x,
                                                         y |-> neighbor.y,
                                                         parent |-> Some(currentNode)])],
                          currentNode, neighbors, k + 1)
            ELSE BfsVisit(s, currentNode, neighbors, k + 1)

\* faulty variant: queue.pop() for queue.shift(), a depth-first search
BfsStep_Stack(s, landGrid) ==
    IF s.queue = <<>> THEN [s EXCEPT !.done = TRUE, !.result = Null]
    ELSE LET currentNode == s.queue[Len(s.queue)]
             t == [s EXCEPT !.queue = SubSeq(@, 1, Len(@) - 1)]
         IN IF landGrid.grid[currentNode.x][currentNode.y] = 0
            THEN [t EXCEPT !.done = TRUE,
                           !.result = Some([path |-> Reverse(BfsChain(currentNode, landGrid)),
                                            waterNode |-> currentNode])]
            ELSE BfsVisit(t, currentNode, getNeighbors(currentNode, landGrid), 1)

\* faulty variant: the water test compares with 1, so the land start itself passes
BfsStep_LandTest(s, landGrid) ==
    IF s.queue = <<>> THEN [s EXCEPT !.done = TRUE, !.result = Null]
    ELSE LET currentNode == Head(s.queue)
             t == [s EXCEPT !.queue = Tail(@)]
         IN IF landGrid.grid[currentNode.x][currentNode.y] = 1
            THEN [t EXCEPT !.done = TRUE,
                           !.result = Some([path |-> Reverse(BfsChain(currentNode, landGrid)),
                                            waterNode |-> currentNode])]
            ELSE BfsVisit(t, currentNode, getNeighbors(currentNode, landGrid), 1)

\* faulty variant: only water neighbours are enqueued, the search cannot
\* cross land
BfsStep_WaterOnly(s, landGrid) ==
    IF s.queue = <<>> THEN [s EXCEPT !.done = TRUE, !.result = Null]
    ELSE LET currentNode == Head(s.queue)
             t == [s EXCEPT !.queue = Tail(@)]
             IsWater(n) == landGrid.grid[n.x][n.y] = 0
         IN IF landGrid.grid[currentNode.x][currentNode.y] = 0
            THEN [t EXCEPT !.done = TRUE,
                           !.result = Some([path |-> Reverse(BfsChain(currentNode, landGrid)),
                                            waterNode |-> currentNode])]
            ELSE BfsVisit(t, currentNode,
                          SelectSeq(getNeighbors(currentNode, landGrid), IsWater), 1)

\* one iteration of `while (queue.length > 0)`, or the final `return null`
BfsStep(s, landGrid) ==
    IF s.queue = <<>> THEN [s EXCEPT !.done = TRUE, !.result = Null]
    ELSE LET currentNode == Head(s.queue)
             t == [s EXCEPT !.queue = Tail(@)]
         IN IF landGrid.grid[currentNode.x][currentNode.y] = 0
            THEN [t EXCEPT !.done = TRUE,
                           !.result = Some([path |-> Reverse(BfsChain(currentNode, landGrid)),
                                            waterNode |-> currentNode])]
            ELSE BfsVisit(t, currentNode, getNeighbors(currentNode, landGrid), 1)

RECURSIVE BfsLoop(_, _)
BfsLoop(s, landGrid) == IF s.done THEN s ELSE BfsLoop(BfsStep(s, landGrid), landGrid)

\* Null, or Some([path, waterNode])
findPathToNearestWater(startNode, landGrid) ==
    BfsLoop(BfsInit(startNode), landGrid).result

\* -------------------------------------------------------------- cost model
\* Math.sin / Math.cos of a compass direction that is a multiple of 45
\* degrees (getData returns cardinal * 45), in thousandths
SinDeg(d) ==
    LET c == (d \div 45) % 8
    IN <<0, 707, 1000, 707, 0, -707, -1000, -707>>[c + 1]

CosDeg(d) ==
    LET c == (d \div 45) % 8
    IN <<1000, 707, 0, -707, -1000, -707, 0, 707>>[c + 1]

\* a direction field in arithmetic: null coerces to 0
DirOf(d) == IF d = NoData THEN 0 ELSE d

\* params.speed * 0.514444 in mm/s
VshipOf(params) == (params.speed * 514444) \div 1000

\* params.speed * 1.852 in m/h
SpeedKmhOf(params) == params.speed * 1852

\* (params.baseWeight + params.load) || 1
DisplacementOf(params) ==
    IF params.baseWeight + params.load = 0 THEN 1
    ELSE params.baseWeight + params.load

\* the bearing of a segment with its sine and cosine
Heading(a, b, grid) ==
    [deg |-> calculateBearing(a, b, grid),
     sin |-> sinBearing(a, b, grid), cos |-> cosBearing(a, b, grid)]

\* litres per km, in decilitres per km
calculateFuelPerKm(params) ==
    LET speedKmh == SpeedKmhOf(params)
        totalWeight == params.baseWeight + params.load
        weightFactor == IF totalWeight > 0
                        THEN 1000 + (params.k * params.load) \div params.baseWeight
                        ELSE 1000
        perHour == MulDiv(MulDiv(MulDiv(MulDiv(params.hpReq * 95, params.fuelRate, 1000),
                                        weightFactor, 1000), params.F, 1000),
                          params.S, 1000)
        fuelPerKm == MulDiv(perHour, 100, speedKmh)
    IN IF speedKmh <= 0 THEN Infinity
       ELSE IF fuelPerKm = 0 THEN 1 ELSE fuelPerKm

windCostMultiplier(boatBearing, baseFuelPerKm, SFOC, params, envData) ==
    LET Vship == VshipOf(params)
        speed_kmh == MulDiv(Vship, 1852, 1000)
        A_front == 8 * params.beam * params.shipLength
        A_side == 25 * params.beam * params.shipLength
        wind == envData.wind_speed_mps
        delta == (DirOf(envData.wind_direction_deg) * 100 - boatBearing.deg + 36000) % 36000
        head == delta <= 4500 \/ delta >= 31500
        tail == delta >= 13500 /\ delta <= 22500
        A == IF head \/ tail THEN A_front ELSE A_side
        Cd == IF head \/ tail THEN 400 ELSE 600
        Vrel == IF head THEN Vship + wind
                ELSE IF tail THEN Abs(Vship - wind)
                ELSE ISqrt(Vship * Vship + wind * wind)
        Fwind == MulDiv(MulDiv((1225 * Cd) \div 2000, A, 100),
                        MulDiv(Vrel, Vrel, 1000), 1000) \div 1000
        Padded_W == MulDiv(Fwind, Vship, 1000)
        Pbase_kW == MulDiv(MulDiv(baseFuelPerKm * 100, speed_kmh, 1000), 1, Max(SFOC, 1))
    IN IF wind = NoData \/ wind <= 0 THEN 0
       ELSE IF baseFuelPerKm >= Infinity THEN 0
       ELSE Padded_W \div Max(Pbase_kW, 1)

currentCostMutiplier(boatBearing, params, envData) ==
    LET Vship == VshipOf(params)
        cur == envData.current_speed_mps
        curDir == DirOf(envData.current_direction_deg)
        ship_x == (Vship * boatBearing.sin) \div 1000
        ship_y == (Vship * boatBearing.cos) \div 1000
        cur_x == (cur * SinDeg(curDir)) \div 1000
        cur_y == (cur * CosDeg(curDir)) \div 1000
        sog_x == ship_x + cur_x
        sog_y == ship_y + cur_y
        SOG_mps == ISqrt(sog_x * sog_x + sog_y * sog_y)
        \* speed_kmh / SOG_kmh = (Vship * 1.852) / (SOG_mps * 3.6)
        ratio == (Vship * 18520) \div (SOG_mps * 36)
    IN IF cur = NoData \/ cur <= 0 THEN 0
       ELSE IF SOG_mps = 0 THEN Infinity
       ELSE ((ratio - 1000) * 35) \div 100

waveCostMutiplier(boatBearing, params, envData) ==
    LET displacement == DisplacementOf(params)
        \* k in millionths
        k == (2 * params.beam * displacement) \div params.shipLength
        waveHeight == envData.waves_height_m
        delta == (DirOf(envData.wind_direction_deg) * 100 - boatBearing.deg + 36000) % 36000
        factor == IF delta <= 4500 \/ delta >= 31500 THEN 1000
                  ELSE IF delta >= 13500 /\ delta <= 22500 THEN -300
                  ELSE 400
        speedFactor == params.speed * params.speed * 10
        size == MulDiv(MulDiv(MulDiv(k, waveHeight, 1000), Abs(factor), 1000),
                       speedFactor, 1000) \div 1000
    IN IF waveHeight = NoData \/ waveHeight <= 0 THEN 0
       ELSE IF factor < 0 THEN -size ELSE size

\* the largest q with q^5 <= n: Math.pow(x, 0.2)
RECURSIVE FifthRoot(_, _)
FifthRoot(n, q) ==
    IF (q + 1) * (q + 1) * (q + 1) * (q + 1) * (q + 1) > n THEN q
    ELSE FifthRoot(n, q + 1)

rainCostMutiplier(params, envData) ==
    LET displacement == DisplacementOf(params)
        precip == envData.weekly_precip_mean
        \* k / Math.sqrt(displacement) in millionths
        sensitivity == 50000000 \div ISqrt(displacement * 10000)
        \* 0.30 * (500 / displacement)^0.2 in hundredths
        maxPct == IF displacement < 10 THEN 65
                  ELSE FifthRoot((24300000 \div displacement) * 500, 0)
        maxIncrease == Min(300, Max(50, maxPct * 10))
    IN IF precip = NoData \/ precip <= 0 THEN 0
       ELSE IF maxPct > 50 THEN 5000
       ELSE Min(MulDiv(sensitivity, precip, 1000), maxIncrease)

iceBands ==
    << [max |-> 100, base |-> 0, navigable |-> TRUE],
       [max |-> 300, base |-> 50, navigable |-> TRUE],
       [max |-> 600, base |-> 150, navigable |-> TRUE],
       [max |-> 800, base |-> 500, navigable |-> FALSE],
       [max |-> 1000, base |-> 1000, navigable |-> FALSE] >>

\* 1-based index of the first band with ice <= band.max, else the last band
IceBandIndex(ice) ==
    LET matching == {i \in 1..Len(iceBands) : ice <= iceBands[i].max}
    IN IF matching = {} THEN Len(iceBands)
       ELSE CHOOSE i \in matching : \A j \in matching : i <= j

IceLowerBound(ice, idx) ==
    IF \A i \in 1..Len(iceBands) : ice > iceBands[i].max
    THEN iceBands[Len(iceBands)].max
    ELSE IF idx = 1 THEN 0 ELSE iceBands[idx - 1].max

IceIncreaseIn(ice, band, lowerBound) ==
    (band.base * (500 + (((ice - lowerBound) * 1000)
                          \div Max(band.max - lowerBound, 1)) \div 2)) \div 1000

IceIncrease(ice, idx) == IceIncreaseIn(ice, iceBands[idx], IceLowerBound(ice, idx))

iceCostMutiplier(params, envData) ==
    IF envData.ice_conc = NoData \/ envData.ice_conc <= 0 THEN 0
    ELSE Max(0, Min((IceIncrease(envData.ice_conc, IceBandIndex(envData.ice_conc))
                     \* Math.sqrt(refDisp / displacement), refDisp = 10000
                     * ISqrt(((10000 * 100000) \div DisplacementOf(params)) * 10))
                    \div 1000,
                    3000))


\* faulty variant: the shallow effect is not capped at 1.0
depthCostMutiplier_Uncapped(params, envData) ==
    LET seaDepth == envData.depth
        depthToDraftRatio == (seaDepth * 1000) \div params.draft
        shallowEffect == 1000000 \div Max(depthToDraftRatio - 1000, 100)
    IN IF depthToDraftRatio > 5000 THEN 0
       ELSE IF depthToDraftRatio < 1200 THEN 5000
       ELSE shallowEffect

depthCostMutiplier(params, envData) ==
    LET seaDepth == envData.depth
        depthToDraftRatio == (seaDepth * 1000) \div params.draft
        shallowEffect == 1000000 \div Max(depthToDraftRatio - 1000, 100)
    IN IF depthToDraftRatio > 5000 THEN 0
       ELSE IF depthToDraftRatio < 1200 THEN 5000
       ELSE Min(shallowEffect, 1000)

\* speed over ground in m/h
\* a field in arithmetic with `|| 0`
OrZero(v) == IF v = NoData THEN 0 ELSE v

SpeedInWaves(stw, waveHeight, relWaveAngle) ==
    LET waveResistanceFactor ==
            IF relWaveAngle <= 6000 \/ relWaveAngle >= 30000 THEN 1000
            ELSE IF relWaveAngle > 6000 /\ relWaveAngle < 12000 THEN 400
            ELSE 0
    IN IF waveHeight > 100
       THEN MulDiv(stw, 1000 - Min(750, (waveHeight * waveResistanceFactor) \div 10000),
                   1000)
       ELSE stw

SpeedInIce(stw, iceConc) ==
    IF iceConc > 50 THEN MulDiv(stw, 1000000 - iceConc * iceConc, 1000) \div 1000
    ELSE stw

SpeedAtRatio(stw, depthToDraftRatio) ==
    IF depthToDraftRatio < 1200 THEN MulDiv(stw, 200, 1000)
    ELSE IF depthToDraftRatio < 1500 THEN MulDiv(stw, 600, 1000)
    ELSE IF depthToDraftRatio < 3000 THEN MulDiv(stw, 900, 1000)
    ELSE stw

\* envData.depth || Infinity: a missing or zero depth is no restriction
SpeedInShallows(stw, depth, draft) ==
    IF depth = NoData \/ depth = 0 THEN stw
    ELSE SpeedAtRatio(stw, (depth * 1000) \div Max(1, draft))

Hypot(x, y) == ISqrt(x * x + y * y)

\* faulty variant: the speed over ground has no floor of 0.5 km/h
SpeedOverGround_NoFloor(stw, headingDeg, currentSpeedMps, currentDir) ==
    IF currentSpeedMps > 50
    THEN Hypot((stw * headingDeg.sin) \div 1000
                 + (((currentSpeedMps * 36) \div 10) * SinDeg(currentDir)) \div 1000,
               (stw * headingDeg.cos) \div 1000
                 + (((currentSpeedMps * 36) \div 10) * CosDeg(currentDir)) \div 1000)
    ELSE stw

SpeedOverGround(stw, headingDeg, currentSpeedMps, currentDir) ==
    IF currentSpeedMps > 50
    THEN Max(500, Hypot((stw * headingDeg.sin) \div 1000
                          + (((currentSpeedMps * 36) \div 10) * SinDeg(currentDir)) \div 1000,
                        (stw * headingDeg.cos) \div 1000
                          + (((currentSpeedMps * 36) \div 10) * CosDeg(currentDir)) \div 1000))
    ELSE Max(500, stw)

\* speed over ground in m/h
getEffectiveSpeed(baseSpeedKmh, envData, headingDeg, params) ==
    SpeedOverGround(
        SpeedInShallows(
            SpeedInIce(
                SpeedInWaves(baseSpeedKmh, OrZero(envData.waves_height_m),
                             (DirOf(envData.wind_direction_deg) * 100 - headingDeg.deg
                              + 36000) % 36000),
                OrZero(envData.ice_conc)),
            envData.depth, params.draft),
        headingDeg, OrZero(envData.current_speed_mps),
        DirOf(envData.current_direction_deg))


\* ray casting over zone.geometry.coordinates[0], a ring of <<lng, lat>>
IntersectsEdge(point, polygon, i) ==
    LET j == IF i = 1 THEN Len(polygon) ELSE i - 1
        xi == polygon[i][1]
        yi == polygon[i][2]
        xj == polygon[j][1]
        yj == polygon[j][2]
    IN /\ (yi > point.lat) # (yj > point.lat)
       /\ IF yj - yi > 0
          THEN (point.lng - xi) * (yj - yi) < (xj - xi) * (point.lat - yi)
          ELSE (point.lng - xi) * (yj - yi) > (xj - xi) * (point.lat - yi)

isInsidePolygon(point, polygon) ==
    Cardinality({i \in 1..Len(polygon) : IntersectsEdge(point, polygon, i)}) % 2 = 1

isPointInNoGoZone(point, noGoZones) ==
    \E z \in 1..Len(noGoZones) : isInsidePolygon(point, noGoZones[z])

weatherPenaltyWeightOf(strategy) ==
    IF strategy = "fastest" THEN 200
    ELSE IF strategy = "safest" THEN 5000
    ELSE 1000

\* weatherPenaltyWeight * multiplier
Weighted(w, m) == IF m >= Infinity THEN Infinity ELSE (w * m) \div 1000

\* a + b over the doubles with +Infinity
Plus(a, b) == IF a >= Infinity \/ b >= Infinity THEN Infinity ELSE a + b

\* a * b / 1000 over the doubles with +Infinity (a, b >= 0)
Times(a, b) ==
    IF a = 0 \/ b = 0 THEN 0
    ELSE IF a >= Infinity \/ b >= Infinity THEN Infinity
    ELSE MulDiv(a, b, 1000)

\* distanceKm / speedKmh in thousandths of an hour (speed in m/h)
HoursFor(distanceKm, speedKmh) == MulDiv(distanceKm * 1000, 1000, speedKmh)

\* faulty variant: the depth multiplier is weighted like the weather terms
CostMultiplierOf_WeightedDepth(weatherPenaltyWeight, boatBearing, baseFuelPerKm, params, envData) ==
    Plus(Plus(Plus(Plus(Plus(Plus(1000,
        Weighted(weatherPenaltyWeight,
                 windCostMultiplier(boatBearing, baseFuelPerKm, 1, params, envData))),
        Weighted(weatherPenaltyWeight, currentCostMutiplier(boatBearing, params, envData))),
        Weighted(weatherPenaltyWeight, waveCostMutiplier(boatBearing, params, envData))),
        Weighted(weatherPenaltyWeight, rainCostMutiplier(params, envData))),
        Weighted(weatherPenaltyWeight, iceCostMutiplier(params, envData))),
        Weighted(weatherPenaltyWeight, depthCostMutiplier(params, envData)))

\* 1.0 plus the weighted weather multipliers plus the depth multiplier
CostMultiplierOf(weatherPenaltyWeight, boatBearing, baseFuelPerKm, params, envData) ==
    Plus(Plus(Plus(Plus(Plus(Plus(1000,
        Weighted(weatherPenaltyWeight,
                 windCostMultiplier(boatBearing, baseFuelPerKm, 1, params, envData))),
        Weighted(weatherPenaltyWeight, currentCostMutiplier(boatBearing, params, envData))),
        Weighted(weatherPenaltyWeight, waveCostMutiplier(boatBearing, params, envData))),
        Weighted(weatherPenaltyWeight, rainCostMutiplier(params, envData))),
        Weighted(weatherPenaltyWeight, iceCostMutiplier(params, envData))),
        depthCostMutiplier(params, envData))

\* costMultiplier *= 100 inside a no-go zone
NoGoPenalty(costMultiplier, inNoGoZone) ==
    IF inNoGoZone THEN Times(costMultiplier, 100000) ELSE costMultiplier

FuelMultiplierOf(baseSpeedKmh, effectiveSpeedKmh) ==
    IF baseSpeedKmh <= 0 THEN 500
    ELSE Max(500, 1000 + ((baseSpeedKmh - effectiveSpeedKmh) * 1000) \div baseSpeedKmh)

\* faulty variant: the cost multiplier has no floor of 0.1, and a multiplier of
\* zero or below makes the segment free
PricedSegment_NoFloor(baseCost, distanceKm, costMultiplier, baseSpeedKmh, effectiveSpeedKmh) ==
    [fuelCost |-> IF costMultiplier <= 0 THEN 0
                  ELSE Times(Times(baseCost, costMultiplier),
                             FuelMultiplierOf(baseSpeedKmh, effectiveSpeedKmh)),
     distanceKm |-> distanceKm,
     effectiveSpeedKmh |-> effectiveSpeedKmh,
     timeHours |-> IF effectiveSpeedKmh > 0 THEN HoursFor(distanceKm, effectiveSpeedKmh)
                   ELSE Infinity]

\* the result object of a priced water segment
PricedSegment(baseCost, distanceKm, costMultiplier, baseSpeedKmh, effectiveSpeedKmh) ==
    [fuelCost |-> Times(Times(baseCost, Max(100, costMultiplier)),
                        FuelMultiplierOf(baseSpeedKmh, effectiveSpeedKmh)),
     distanceKm |-> distanceKm,
     effectiveSpeedKmh |-> effectiveSpeedKmh,
     timeHours |-> IF effectiveSpeedKmh > 0 THEN HoursFor(distanceKm, effectiveSpeedKmh)
                   ELSE Infinity]

\* faulty variant: a zero-length segment is charged as one kilometre
SegmentCostOf_MinimumCharge(baseFuelPerKm, distanceKm, boatBearing, baseSpeedKmh, envData, weatherPenaltyWeight, inNoGoZone, params) ==
    IF distanceKm = 0
    THEN [fuelCost |-> baseFuelPerKm, distanceKm |-> distanceKm,
          effectiveSpeedKmh |-> baseSpeedKmh, timeHours |-> 0]
    ELSE IF envData.depth = NoData
    THEN [fuelCost |-> IF baseFuelPerKm >= Infinity THEN Infinity
                       ELSE baseFuelPerKm * distanceKm * 5,
          distanceKm |-> distanceKm, effectiveSpeedKmh |-> baseSpeedKmh,
          timeHours |-> HoursFor(distanceKm, Max(1, baseSpeedKmh))]
    ELSE PricedSegment(IF baseFuelPerKm >= Infinity THEN Infinity
                       ELSE baseFuelPerKm * distanceKm,
                       distanceKm,
                       NoGoPenalty(CostMultiplierOf(weatherPenaltyWeight, boatBearing,
                                                    baseFuelPerKm, params, envData),
                                   inNoGoZone),
                       baseSpeedKmh,
                       getEffectiveSpeed(baseSpeedKmh, envData, boatBearing, params))

\* faulty variant: the no-go penalty is applied to the missing-depth price too
SegmentCostOf_ZonedPenalty(baseFuelPerKm, distanceKm, boatBearing, baseSpeedKmh, envData, weatherPenaltyWeight, inNoGoZone, params) ==
    IF distanceKm = 0
    THEN [fuelCost |-> 0, distanceKm |-> distanceKm,
          effectiveSpeedKmh |-> baseSpeedKmh, timeHours |-> 0]
    ELSE IF envData.depth = NoData
    THEN [fuelCost |-> IF baseFuelPerKm >= Infinity THEN Infinity
                       ELSE baseFuelPerKm * distanceKm * 5
                                * (IF inNoGoZone THEN 100 ELSE 1),
          distanceKm |-> distanceKm, effectiveSpeedKmh |-> baseSpeedKmh,
          timeHours |-> HoursFor(distanceKm, Max(1, baseSpeedKmh))]
    ELSE PricedSegment(IF baseFuelPerKm >= Infinity THEN Infinity
                       ELSE baseFuelPerKm * distanceKm,
                       distanceKm,
                       NoGoPenalty(CostMultiplierOf(weatherPenaltyWeight, boatBearing,
                                                    baseFuelPerKm, params, envData),
                                   inNoGoZone),
                       baseSpeedKmh,
                       getEffectiveSpeed(baseSpeedKmh, envData, boatBearing, params))

SegmentCostOf(baseFuelPerKm, distanceKm, boatBearing, baseSpeedKmh, envData, weatherPenaltyWeight, inNoGoZone, params) ==
    IF distanceKm = 0
    THEN [fuelCost |-> 0, distanceKm |-> distanceKm,
          effectiveSpeedKmh |-> baseSpeedKmh, timeHours |-> 0]
    ELSE IF envData.depth = NoData
    THEN [fuelCost |-> IF baseFuelPerKm >= Infinity THEN Infinity
                       ELSE baseFuelPerKm * distanceKm * 5,
          distanceKm |-> distanceKm, effectiveSpeedKmh |-> baseSpeedKmh,
          timeHours |-> HoursFor(distanceKm, Max(1, baseSpeedKmh))]
    ELSE PricedSegment(IF baseFuelPerKm >= Infinity THEN Infinity
                       ELSE baseFuelPerKm * distanceKm,
                       distanceKm,
                       NoGoPenalty(CostMultiplierOf(weatherPenaltyWeight, boatBearing,
                                                    baseFuelPerKm, params, envData),
                                   inNoGoZone),
                       baseSpeedKmh,
                       getEffectiveSpeed(baseSpeedKmh, envData, boatBearing, params))

calculateSegmentCost(fromNode, toNode, grid, params, envCache, strategy, noGoZones) ==
    SegmentCostOf(calculateFuelPerKm(params),
                  calculateDistance(fromNode, toNode, grid),
                  Heading(fromNode, toNode, grid),
                  SpeedKmhOf(params),
                  envCache[Key(fromNode)],
                  weatherPenaltyWeightOf(strategy),
                  isPointInNoGoZone(gridToLatLng(grid, toNode.x, toNode.y), noGoZones),
                  params)


\* in decilitres: the 'fastest' heuristic is the distance in km used as litres
HeuristicOf(distanceKm, fuelPerKm, strategy) ==
    IF strategy = "fastest" THEN distanceKm * 10
    ELSE IF fuelPerKm >= Infinity
         THEN (IF distanceKm = 0 THEN 0 ELSE Infinity)
    ELSE fuelPerKm * distanceKm

heuristic(a, b, grid, params, strategy) ==
    HeuristicOf(calculateDistance(a, b, grid), calculateFuelPerKm(params), strategy)



\* ---------------------------------------------------------------- runAStar
AStarInit(startNode, endNode, landGrid, params, strategy) ==
    LET initialHeuristic == heuristic(startNode, endNode, landGrid, params, strategy)
    IN [openSet |-> HeapPush(<<>>, [x |-> startNode.x, y |-> startNode.y, g |-> 0,
                                    h |-> initialHeuristic, f |-> initialHeuristic,
                                    parent |-> Null]),
        closedSet |-> {},
        gScores |-> (Key(startNode) :> 0),
        done |-> FALSE, result |-> Null]

\* faulty variant: an equal gScore is recorded and pushed as well
Improve_NotStrict(s, currentNode, neighbor, gScore, h) ==
    IF Key(neighbor) \notin DOMAIN s.gScores \/ gScore <= s.gScores[Key(neighbor)]
    THEN [s EXCEPT !.gScores = (Key(neighbor) :> gScore) @@ @,
                   !.openSet = HeapPush(@, [x |-> neighbor.x, y |-> neighbor.y,
                                            g |-> gScore, h |-> h,
                                            f |-> Plus(gScore, h),
                                            parent |-> Some(currentNode)])]
    ELSE s

\* faulty variant: a cheaper gScore is pushed but the recorded one is kept
Improve_Unrecorded(s, currentNode, neighbor, gScore, h) ==
    IF Key(neighbor) \notin DOMAIN s.gScores \/ gScore < s.gScores[Key(neighbor)]
    THEN [s EXCEPT !.gScores = @ @@ (Key(neighbor) :> gScore),
                   !.openSet = HeapPush(@, [x |-> neighbor.x, y |-> neighbor.y,
                                            g |-> gScore, h |-> h,
                                            f |-> Plus(gScore, h),
                                            parent |-> Some(currentNode)])]
    ELSE s

\* lines 160-165: a first or a cheaper gScore is recorded and the neighbour
\* is pushed
Improve(s, currentNode, neighbor, gScore, h) ==
    IF Key(neighbor) \notin DOMAIN s.gScores \/ gScore < s.gScores[Key(neighbor)]
    THEN [s EXCEPT !.gScores = (Key(neighbor) :> gScore) @@ @,
                   !.openSet = HeapPush(@, [x |-> neighbor.x, y |-> neighbor.y,
                                            g |-> gScore, h |-> h,
                                            f |-> Plus(gScore, h),
                                            parent |-> Some(currentNode)])]
    ELSE s

\* faulty variant: the hard block on land neighbours is missing
Relax_NoLandBlock(s, currentNode, neighbor, endNode, landGrid, params, envCache, strategy, noGoZones) ==
    IF Key(neighbor) \in s.closedSet THEN s
    ELSE Improve(s, currentNode, neighbor,
                 Plus(currentNode.g,
                      calculateSegmentCost(currentNode, neighbor, landGrid, params,
                                           envCache, strategy, noGoZones).fuelCost),
                 heuristic(neighbor, endNode, landGrid, params, strategy))


\* faulty variant: a land neighbour is skipped even when it is the destination
Relax_LandAlwaysBlocked(s, currentNode, neighbor, endNode, landGrid, params, envCache, strategy, noGoZones) ==
    LET isNeighborLand == landGrid.grid[neighbor.x][neighbor.y] = 1
    IN IF Key(neighbor) \in s.closedSet THEN s
       ELSE IF isNeighborLand THEN s
       ELSE Improve(s, currentNode, neighbor,
                    Plus(currentNode.g,
                         calculateSegmentCost(currentNode, neighbor, landGrid, params,
                                              envCache, strategy, noGoZones).fuelCost),
                    heuristic(neighbor, endNode, landGrid, params, strategy))

\* faulty variant: a neighbour inside a no-go zone is skipped like land
Relax_ZoneBlocked(s, currentNode, neighbor, endNode, landGrid, params, envCache, strategy, noGoZones) ==
    LET isNeighborLand == landGrid.grid[neighbor.x][neighbor.y] = 1
        isNeighborDestination == neighbor.x = endNode.x /\ neighbor.y = endNode.y
    IN IF Key(neighbor) \in s.closedSet THEN s
       ELSE IF isNeighborLand /\ ~isNeighborDestination THEN s
       ELSE IF isPointInNoGoZone(gridToLatLng(landGrid, neighbor.x, neighbor.y), noGoZones)
       THEN s
       ELSE Improve(s, currentNode, neighbor,
                    Plus(currentNode.g,
                         calculateSegmentCost(currentNode, neighbor, landGrid, params,
                                              envCache, strategy, noGoZones).fuelCost),
                    heuristic(neighbor, endNode, landGrid, params, strategy))

\* the body of `for (const neighbor of neighbors)` for one neighbour
Relax(s, currentNode, neighbor, endNode, landGrid, params, envCache, strategy, noGoZones) ==
    LET isNeighborLand == landGrid.grid[neighbor.x][neighbor.y] = 1
        isNeighborDestination == neighbor.x = endNode.x /\ neighbor.y = endNode.y
    IN IF Key(neighbor) \in s.closedSet THEN s
       ELSE IF isNeighborLand /\ ~isNeighborDestination THEN s
       ELSE Improve(s, currentNode, neighbor,
                    Plus(currentNode.g,
                         calculateSegmentCost(currentNode, neighbor, landGrid, params,
                                              envCache, strategy, noGoZones).fuelCost),
                    heuristic(neighbor, endNode, landGrid, params, strategy))


RECURSIVE RelaxAll(_, _, _, _, _, _, _, _, _, _)
RelaxAll(s, currentNode, neighbors, k, endNode, landGrid, params, envCache, strategy, noGoZones) ==
    IF k > Len(neighbors) THEN s
    ELSE RelaxAll(Relax(s, currentNode, neighbors[k], endNode, landGrid, params,
                        envCache, strategy, noGoZones),
                  currentNode, neighbors, k + 1, endNode, landGrid, params,
                  envCache, strategy, noGoZones)

\* faulty variant: the expanded cell is not added to the closed set
AStarStep_NeverCloses(s, endNode, landGrid, params, envCache, strategy, noGoZones) ==
    IF Len(s.openSet) = 0 THEN [s EXCEPT !.done = TRUE, !.result = Null]
    ELSE LET currentNode == s.openSet[1]
             currentKey == Key(currentNode)
             t == [s EXCEPT !.openSet = HeapPop(@)]
         IN IF currentKey \in s.closedSet THEN t
            ELSE IF currentNode.x = endNode.x /\ currentNode.y = endNode.y
            THEN [t EXCEPT !.done = TRUE, !.result = Some(currentNode)]
            ELSE RelaxAll(t, currentNode, getNeighbors(currentNode, landGrid), 1,
                          endNode, landGrid, params, envCache, strategy, noGoZones)

\* faulty variant: the search gives up once three cells have been expanded
AStarStep_GivesUp(s, endNode, landGrid, params, envCache, strategy, noGoZones) ==
    IF Len(s.openSet) = 0 \/ Cardinality(s.closedSet) >= 3
    THEN [s EXCEPT !.done = TRUE, !.result = Null]
    ELSE LET currentNode == s.openSet[1]
             currentKey == Key(currentNode)
             t == [s EXCEPT !.openSet = HeapPop(@)]
         IN IF currentKey \in s.closedSet THEN t
            ELSE IF currentNode.x = endNode.x /\ currentNode.y = endNode.y
            THEN [t EXCEPT !.done = TRUE, !.result = Some(currentNode)]
            ELSE RelaxAll([t EXCEPT !.closedSet = @ \cup {currentKey}],
                          currentNode, getNeighbors(currentNode, landGrid), 1,
                          endNode, landGrid, params, envCache, strategy, noGoZones)

\* one iteration of `while (openSet.size() > 0)`, or the final `return null`
AStarStep(s, endNode, landGrid, params, envCache, strategy, noGoZones) ==
    IF Len(s.openSet) = 0 THEN [s EXCEPT !.done = TRUE, !.result = Null]
    ELSE LET currentNode == s.openSet[1]
             currentKey == Key(currentNode)
             t == [s EXCEPT !.openSet = HeapPop(@)]
         IN IF currentKey \in s.closedSet THEN t
            ELSE IF currentNode.x = endNode.x /\ currentNode.y = endNode.y
            THEN [t EXCEPT !.done = TRUE, !.result = Some(currentNode)]
            ELSE RelaxAll([t EXCEPT !.closedSet = @ \cup {currentKey}],
                          currentNode, getNeighbors(currentNode, landGrid), 1,
                          endNode, landGrid, params, envCache, strategy, noGoZones)

RECURSIVE AStarLoop(_, _, _, _, _, _, _)
AStarLoop(s, endNode, landGrid, params, envCache, strategy, noGoZones) ==
    IF s.done THEN s
    ELSE AStarLoop(AStarStep(s, endNode, landGrid, params, envCache, strategy, noGoZones),
                   endNode, landGrid, params, envCache, strategy, noGoZones)

\* Null, or Some(the goal node)
runAStar(startNode, endNode, landGrid, params, envCache, strategy, noGoZones) ==
    AStarLoop(AStarInit(startNode, endNode, landGrid, params, strategy),
              endNode, landGrid, params, envCache, strategy, noGoZones).result

\* faulty variant: `while (temp.parent)`, the root of the chain is left out
RECURSIVE AStarChain_WithoutRoot(_, _, _)
AStarChain_WithoutRoot(node, grid, initialFuel) ==
    IF node.parent = Null THEN <<>>
    ELSE <<PathPoint(grid, node, Plus(initialFuel, node.g))>>
         \o AStarChain_WithoutRoot(node.parent[1], grid, initialFuel)

\* the `while (temp)` loop of reconstructAndFormatPath: node first, root last
RECURSIVE AStarChain(_, _, _)
AStarChain(node, grid, initialFuel) ==
    <<PathPoint(grid, node, Plus(initialFuel, node.g))>>
    \o (IF node.parent = Null THEN <<>>
        ELSE AStarChain(node.parent[1], grid, initialFuel))

reconstructAndFormatPath(endNode, landGrid, initialFuel) ==
    Reverse(AStarChain(endNode, landGrid, initialFuel))

\* faulty variant: every segment is priced, whether or not it touches land
RepricedPoint_PriceLand(point, previous, overWater, distanceKm, segRes) ==
    [lat |-> point.lat, lng |-> point.lng, onLand |-> point.onLand,
     totalFuel |-> Plus(previous.totalFuel, segRes.fuelCost),
     totalTime |-> Plus(previous.totalTime, segRes.timeHours),
     segmentSpeed |-> segRes.effectiveSpeedKmh,
     segmentDistance |-> distanceKm,
     segmentTime |-> segRes.timeHours,
     segmentFuel |-> segRes.fuelCost]

\* ---------------------------------------------------- recalculateTotalFuel
\* lines 249-273: the point path[i] with its cumulative and segment fields;
\* a segment touching land costs no fuel and no time
RepricedPoint(point, previous, overWater, distanceKm, segRes) ==
    [lat |-> point.lat, lng |-> point.lng, onLand |-> point.onLand,
     totalFuel |-> Plus(previous.totalFuel, IF overWater THEN segRes.fuelCost ELSE 0),
     totalTime |-> Plus(previous.totalTime, IF overWater THEN segRes.timeHours ELSE 0),
     segmentSpeed |-> IF overWater THEN segRes.effectiveSpeedKmh ELSE 0,
     segmentDistance |-> distanceKm,
     segmentTime |-> IF overWater THEN segRes.timeHours ELSE 0,
     segmentFuel |-> IF overWater THEN segRes.fuelCost ELSE 0]

\* the body of `for (let i = 1; ...)` for the 1-based index i >= 2; done is
\* the re-priced prefix path[1..i-1], whose last point carries the running
\* cumulativeFuel and cumulativeTime
RECURSIVE RepriceFrom(_, _, _, _, _, _, _, _)
RepriceFrom(path, done, i, landGrid, params, envCache, strategy, noGoZones) ==
    IF i > Len(path) THEN done
    ELSE RepriceFrom(
            path,
            Append(done,
                   RepricedPoint(path[i], done[i - 1],
                                 ~path[i].onLand /\ ~path[i - 1].onLand,
                                 calculateDistance(latLngToGrid(landGrid, path[i - 1]),
                                                   latLngToGrid(landGrid, path[i]), landGrid),
                                 calculateSegmentCost(latLngToGrid(landGrid, path[i - 1]),
                                                      latLngToGrid(landGrid, path[i]),
                                                      landGrid, params, envCache, strategy,
                                                      noGoZones))),
            i + 1, landGrid, params, envCache, strategy, noGoZones)


\* faulty variant: the assembled path is returned without the re-pricing pass
recalculateTotalFuel_Skip(path, landGrid, params, envCache, strategy, noGoZones) ==
    path

recalculateTotalFuel(path, landGrid, params, envCache, strategy, noGoZones) ==
    IF Len(path) < 2 THEN path
    ELSE RepriceFrom(path,
                     <<[lat |-> path[1].lat, lng |-> path[1].lng,
                        onLand |-> path[1].onLand, totalFuel |-> 0, totalTime |-> 0]>>,
                     2, landGrid, params, envCache, strategy, noGoZones)

\* ---------------------------------------------------------------- findPath
OutOfGrid(node, landGrid) ==
    node.x < 0 \/ node.x >= landGrid.cols \/ node.y < 0 \/ node.y >= landGrid.rows

\* faulty variant: the bridge from the start loses its first point
AssemblePath_DropStart(pathFromStart, waterPath, pathToEnd) ==
    (IF Len(pathFromStart) > 0
     THEN SubSeq(pathFromStart, 2, Len(pathFromStart) - 1)
     ELSE <<>>)
    \o waterPath
    \o (IF Len(pathToEnd) > 0 THEN Reverse(Tail(pathToEnd)) ELSE <<>>)

\* finalPath of one strategy from the two bridge paths and the water path
AssemblePath(pathFromStart, waterPath, pathToEnd) ==
    LET head == IF Len(pathFromStart) > 0
                THEN (IF Len(waterPath) > 0
                      THEN SubSeq(pathFromStart, 1, Len(pathFromStart) - 1)
                      ELSE pathFromStart)
                ELSE <<>>
        finalPath == head \o waterPath
    IN IF Len(pathToEnd) > 0
       THEN finalPath \o Reverse(IF Len(finalPath) > 0 THEN Tail(pathToEnd)
                                 ELSE pathToEnd)
       ELSE finalPath

\* lines 96-112: what the iteration stores once runAStar has returned
SearchOutcome(sofar, pathFromStart, pathToEnd, waterPathResult, strategy, landGrid, params, envCache, noGoZones) ==
    IF waterPathResult = Null THEN [sofar EXCEPT !.outcome = "noWaterPath"]
    ELSE [sofar EXCEPT
             !.outcome = "route",
             !.waterPathResult = waterPathResult,
             !.calls = Append(@, "recalculateTotalFuel"),
             !.path = recalculateTotalFuel(
                          AssemblePath(pathFromStart,
                                       reconstructAndFormatPath(waterPathResult[1],
                                                                landGrid, 0),
                                       pathToEnd),
                          landGrid, params, envCache, strategy, noGoZones)]

\* One iteration of `for (const strategy of strategies)`: the value stored
\* in allPaths[strategy], with the calls the iteration made and their results.
FindPathIteration(strategy, landGrid, startLatLng, endLatLng, params, envCache, noGoZones) ==
    LET originalStartNode == latLngToGrid(landGrid, startLatLng)
        originalEndNode == latLngToGrid(landGrid, endLatLng)
        outOfBounds == OutOfGrid(originalStartNode, landGrid)
                       \/ OutOfGrid(originalEndNode, landGrid)
        isStartOnLand == landGrid.grid[originalStartNode.x][originalStartNode.y] = 1
        isEndOnLand == landGrid.grid[originalEndNode.x][originalEndNode.y] = 1
        startWaterInfo == findPathToNearestWater(originalStartNode, landGrid)
        endWaterInfo == findPathToNearestWater(originalEndNode, landGrid)
        aStarStartNode == IF isStartOnLand THEN startWaterInfo[1].waterNode
                          ELSE originalStartNode
        aStarEndNode == IF isEndOnLand THEN endWaterInfo[1].waterNode
                        ELSE originalEndNode
        none == [outcome |-> "", path |-> <<>>, calls |-> <<>>,
                 startWaterInfo |-> Null, endWaterInfo |-> Null,
                 aStarStartNode |-> Null, aStarEndNode |-> Null,
                 waterPathResult |-> Null]
        callsStart == IF isStartOnLand THEN <<"findPathToNearestWater">> ELSE <<>>
        callsEnd == callsStart
                    \o (IF isEndOnLand THEN <<"findPathToNearestWater">> ELSE <<>>)
    IN IF outOfBounds THEN [none EXCEPT !.outcome = "outOfBounds"]
       ELSE IF isStartOnLand /\ startWaterInfo = Null
       THEN [none EXCEPT !.outcome = "noWaterFromStart", !.calls = callsStart]
       ELSE IF isEndOnLand /\ endWaterInfo = Null
       THEN [none EXCEPT !.outcome = "noWaterFromEnd", !.calls = callsEnd,
                         !.startWaterInfo = IF isStartOnLand THEN startWaterInfo ELSE Null]
       ELSE SearchOutcome(
                [none EXCEPT
                    !.calls = Append(callsEnd, "runAStar"),
                    !.startWaterInfo = IF isStartOnLand THEN startWaterInfo ELSE Null,
                    !.endWaterInfo = IF isEndOnLand THEN endWaterInfo ELSE Null,
                    !.aStarStartNode = Some([x |-> aStarStartNode.x, y |-> aStarStartNode.y]),
                    !.aStarEndNode = Some([x |-> aStarEndNode.x, y |-> aStarEndNode.y])],
                IF isStartOnLand THEN startWaterInfo[1].path ELSE <<>>,
                IF isEndOnLand THEN endWaterInfo[1].path ELSE <<>>,
                runAStar(aStarStartNode, aStarEndNode, landGrid, params, envCache,
                         strategy, noGoZones),
                strategy, landGrid, params, envCache, noGoZones)


\* ------------------------------------------------------------ the inputs
XS == 0..(Cols - 1)
YS == 0..(Rows - 1)
CellKeys == XS \X YS
Nodes == {[x |-> k[1], y |-> k[2]] : k \in CellKeys}

LandCountOf(g) == Cardinality({k \in CellKeys : g[k[1]][k[2]] = 1})

\* the land/water rasters: mostly water, or mostly land
Rasters ==
    {g \in [XS -> [YS -> {0, 1}]] :
        \/ LandCountOf(g) <= MaxLand
        \/ Cardinality(CellKeys) - LandCountOf(g) <= MaxWater}

\* the rasters of the weather runs: open water with at most one land cell,
\* in the first column, or no water at all
OpenRasters ==
    {g \in [XS -> [YS -> {0, 1}]] :
        \/ LandCountOf(g) <= 1 /\ \A k \in CellKeys : g[k[1]][k[2]] = 1 => k[1] = 0
        \/ LandCountOf(g) = Cardinality(CellKeys)}

GridOf(g) ==
    NavigationGrid([grid |-> g, bounds |-> GridGeometry.bounds,
                    resolution |-> GridGeometry.resolution])

\* request coordinates: a point strictly inside every cell, one point west
\* of the grid and one point north of it
InsidePoints ==
    {[lat |-> k[2] * GridGeometry.resolution + GridGeometry.bounds.south
                 + (GridGeometry.resolution - 1),
      lng |-> k[1] * GridGeometry.resolution + GridGeometry.bounds.west
                 + (GridGeometry.resolution - 1)] : k \in CellKeys}

OutsidePoints ==
    {[lat |-> GridGeometry.bounds.south, lng |-> GridGeometry.bounds.west - 1],
     [lat |-> GridGeometry.bounds.south + Rows * GridGeometry.resolution,
      lng |-> GridGeometry.bounds.west]}

RequestPoints == InsidePoints \cup OutsidePoints

\* the fishing_trawler preset with the form defaults k = 0.005, F = S = 1
FishingTrawler ==
    [shipLength |-> 35, beam |-> 8, speed |-> 10, draft |-> 5, hpReq |-> 2000,
     fuelRate |-> 220, k |-> 5, baseWeight |-> 1500, load |-> 500,
     F |-> 1000, S |-> 1000]

\* samples as getData returns them
CalmDeep ==
    [depth |-> 1000, wind_speed_mps |-> 0, wind_direction_deg |-> 0,
     current_speed_mps |-> 0, current_direction_deg |-> 0,
     waves_height_m |-> 0, weekly_precip_mean |-> 0, ice_conc |-> 0]

RoughSamples ==
    {[CalmDeep EXCEPT !.depth = 10],
     [CalmDeep EXCEPT !.depth = NoData],
     [CalmDeep EXCEPT !.current_speed_mps = 1000, !.current_direction_deg = 90],
     [CalmDeep EXCEPT !.wind_speed_mps = 10000, !.wind_direction_deg = 180,
                      !.waves_height_m = 3000, !.ice_conc = 400,
                      !.weekly_precip_mean = 20]}

CalmCache == [k \in CellKeys |-> CalmDeep]

\* calm everywhere, or calm with one cell of rough conditions
RoughCaches ==
    {CalmCache} \cup {[CalmCache EXCEPT ![k] = s] : k \in CellKeys, s \in RoughSamples}

\* ------------------------------------- the Number arithmetic of the grid
\* Coordinates, bounds and resolution are JavaScript Numbers (IEEE 754
\* binary64); each of *, +, - and / returns the exact result rounded to the
\* nearest Number with 53 significant bits, ties to even.  Naturals wider
\* than the integers of the model are sequences of Limbs digits of base
\* Base, least significant first.
Base == 32768

Limbs == 5

Precision == 53

Limb(n, k) == IF k \in 1..Limbs THEN n[k] ELSE 0

\* the natural v < Base * Base
BigOf(v) == [k \in 1..Limbs |-> IF k = 1 THEN v % Base ELSE IF k = 2 THEN v \div Base ELSE 0]

\* the value of a natural below Base * Base
IntOf(n) == n[1] + Base * n[2]

RECURSIVE AddFrom(_, _, _, _)
AddFrom(a, b, k, carry) ==
    IF k > Limbs THEN <<>>
    ELSE LET s == a[k] + b[k] + carry
         IN  <<s % Base>> \o AddFrom(a, b, k + 1, s \div Base)

BigAdd(a, b) == AddFrom(a, b, 1, 0)

RECURSIVE SubFrom(_, _, _, _)
SubFrom(a, b, k, borrow) ==
    IF k > Limbs THEN <<>>
    ELSE LET d == a[k] - b[k] - borrow
         IN  <<d % Base>> \o SubFrom(a, b, k + 1, IF d < 0 THEN 1 ELSE 0)

\* a - b for a >= b
BigSub(a, b) == SubFrom(a, b, 1, 0)

RECURSIVE LessFrom(_, _, _)
LessFrom(a, b, k) ==
    IF k = 0 THEN FALSE
    ELSE IF a[k] # b[k] THEN a[k] < b[k]
    ELSE LessFrom(a, b, k - 1)

BigLess(a, b) == LessFrom(a, b, Limbs)

RECURSIVE MulFrom(_, _, _, _)
MulFrom(a, v, k, carry) ==
    IF k > Limbs THEN <<>>
    ELSE LET p == a[k] * v + carry
         IN  <<p % Base>> \o MulFrom(a, v, k + 1, p \div Base)

\* a * v for a natural v < Base
BigTimes(a, v) == MulFrom(a, v, 1, 0)

\* a shifted right and left by s bits
BigShr(a, s) ==
    LET ls == s \div 15
        bs == s % 15
    IN  [k \in 1..Limbs |-> (Limb(a, k + ls) \div 2^bs)
                            + (Limb(a, k + ls + 1) % 2^bs) * 2^(15 - bs)]

BigShl(a, s) ==
    LET ls == s \div 15
        bs == s % 15
    IN  [k \in 1..Limbs |-> ((Limb(a, k - ls) * 2^bs) % Base)
                            + (Limb(a, k - ls - 1) \div 2^(15 - bs))]

RECURSIVE IntBits(_)
IntBits(v) == IF v = 0 THEN 0 ELSE 1 + IntBits(v \div 2)

RECURSIVE BitsFrom(_, _)
BitsFrom(a, k) ==
    IF k = 0 THEN 0
    ELSE IF a[k] # 0 THEN 15 * (k - 1) + IntBits(a[k])
    ELSE BitsFrom(a, k - 1)

\* the number of significant bits of a
BitLength(a) == BitsFrom(a, Limbs)

\* a Number >= 0 is m * 2^e with m of exactly Precision bits, or zero
Zero == [m |-> BigOf(0), e |-> 0]

\* m * 2^e, plus a nonzero amount below one unit of m when sticky, rounded to
\* the nearest Number, ties to even
RoundToNumber(m, e, sticky) ==
    LET len == BitLength(m)
        s == len - Precision
        q == BigShr(m, s)
        half == BigShr(m, s - 1)[1] % 2 = 1
        rest == sticky \/ BigShl(BigShr(m, s - 1), s - 1) # m
        up == half /\ (rest \/ q[1] % 2 = 1)
        r == IF up THEN BigAdd(q, BigOf(1)) ELSE q
    IN  IF len = 0 THEN Zero
        ELSE IF len <= Precision THEN [m |-> BigShl(m, Precision - len), e |-> e - (Precision - len)]
        ELSE IF BitLength(r) > Precision THEN [m |-> BigShr(r, 1), e |-> e + s + 1]
        ELSE [m |-> r, e |-> e + s]

\* the Number of an integer 0 <= v < Base
NumberOf(v) == RoundToNumber(BigOf(v), 0, FALSE)

\* a + b and a - b (a >= b) of Numbers
NumberPlus(a, b) ==
    LET e == Min(a.e, b.e)
    IN  IF a = Zero THEN b
        ELSE IF b = Zero THEN a
        ELSE RoundToNumber(BigAdd(BigShl(a.m, a.e - e), BigShl(b.m, b.e - e)), e, FALSE)

NumberMinus(a, b) ==
    LET e == Min(a.e, b.e)
    IN  IF b = Zero THEN a
        ELSE RoundToNumber(BigSub(BigShl(a.m, a.e - e), BigShl(b.m, b.e - e)), e, FALSE)

\* v * a for a cell index v
NumberTimes(v, a) == RoundToNumber(BigTimes(a.m, v), a.e, FALSE)

\* long division: steps more quotient bits of qr.q, for a remainder qr.rem < d;
\* once the remainder is zero the bits left are zero
RECURSIVE DivFrom(_, _, _)
DivFrom(qr, d, steps) ==
    IF steps = 0 THEN qr
    ELSE IF qr.rem = BigOf(0) THEN [q |-> BigShl(qr.q, steps), rem |-> qr.rem]
    ELSE LET r2 == BigAdd(qr.rem, qr.rem)
             ge == ~BigLess(r2, d)
         IN  DivFrom([q |-> BigAdd(BigAdd(qr.q, qr.q), BigOf(IF ge THEN 1 ELSE 0)),
                      rem |-> IF ge THEN BigSub(r2, d) ELSE r2], d, steps - 1)

\* a / b of Numbers, b > 0
NumberOver(a, b) ==
    LET ge == ~BigLess(a.m, b.m)
        qr == DivFrom([q |-> BigOf(IF ge THEN 1 ELSE 0),
                       rem |-> IF ge THEN BigSub(a.m, b.m) ELSE a.m], b.m, Precision + 3)
    IN  IF a = Zero THEN Zero
        ELSE RoundToNumber(qr.q, a.e - b.e - (Precision + 3), qr.rem # BigOf(0))

\* Math.floor of a Number below Base * Base
NumberFloor(a) == IF a.e >= 0 THEN IntOf(BigShl(a.m, a.e)) ELSE IntOf(BigShr(a.m, 0 - a.e))

\* the Number JSON.parse reads from the decimal numerator / denominator
Decimal(numerator, denominator) == NumberOver(NumberOf(numerator), NumberOf(denominator))

\* NavigationGrid.latLngToGrid and gridToLatLng in the Number arithmetic
latLngToGridNumber(grid, latlng) ==
    [x |-> NumberFloor(NumberOver(NumberMinus(latlng.lng, grid.bounds.west), grid.resolution)),
     y |-> NumberFloor(NumberOver(NumberMinus(latlng.lat, grid.bounds.south), grid.resolution))]

gridToLatLngNumber(grid, x, y) ==
    [lat |-> NumberPlus(NumberTimes(y, grid.resolution), grid.bounds.south),
     lng |-> NumberPlus(NumberTimes(x, grid.resolution), grid.bounds.west)]

\* ------------------------------------------------------------ the machine
VARIABLES
    landGrid,       \* the NavigationGrid of the request
    startLatLng,    \* request start
    endLatLng,      \* request end
    params,         \* vessel parameters
    envCache,       \* EnvironmentalDataCache, by cell
    noGoZones,      \* polygons of the request
    pc,             \* "loop" inside findPath's for loop, "returned" after it
    i,              \* 1-based index of the strategy the loop is at
    allPaths,       \* allPaths, by strategy, as far as assigned
    info            \* by strategy: the calls of its iteration and their results

vars == <<landGrid, startLatLng, endLatLng, params, envCache, noGoZones, pc, i,
          allPaths, info>>

inputs == <<landGrid, startLatLng, endLatLng, params, envCache, noGoZones>>

Setup(rasters, caches, vessels, zoneSets) ==
    /\ landGrid \in {GridOf(g) : g \in rasters}
    /\ startLatLng \in RequestPoints
    /\ endLatLng \in RequestPoints
    /\ params \in vessels
    /\ envCache \in caches
    /\ noGoZones \in zoneSets
    /\ pc = "loop"
    /\ i = 1
    /\ allPaths = <<>>
    /\ info = <<>>

Init == Setup(Rasters, {CalmCache}, {FishingTrawler}, {<<>>})

InitEnv == Setup(OpenRasters, RoughCaches, {FishingTrawler}, {<<>>})

Iteration == FindPathIteration(strategies[i], landGrid, startLatLng, endLatLng,
                               params, envCache, noGoZones)

OutOfBoundsCase ==
    \/ OutOfGrid(latLngToGrid(landGrid, startLatLng), landGrid)
    \/ OutOfGrid(latLngToGrid(landGrid, endLatLng), landGrid)

NoWaterFrom(latlng) ==
    /\ isLand(landGrid, latLngToGrid(landGrid, latlng))
    /\ findPathToNearestWater(latLngToGrid(landGrid, latlng), landGrid) = Null

\* faulty variant: the iteration marks the cell of the start as land in the grid
Store_MarksGrid ==
    /\ allPaths' = (strategies[i] :> Iteration.path) @@ allPaths
    /\ info' = (strategies[i] :> Iteration) @@ info
    /\ i' = i + 1
    /\ landGrid' = IF OutOfBoundsCase THEN landGrid
                   ELSE [landGrid EXCEPT
                            !.grid[latLngToGrid(landGrid, startLatLng).x]
                                  [latLngToGrid(landGrid, startLatLng).y] = 1]
    /\ UNCHANGED <<startLatLng, endLatLng, params, envCache, noGoZones, pc>>

Store ==
    /\ allPaths' = (strategies[i] :> Iteration.path) @@ allPaths
    /\ info' = (strategies[i] :> Iteration) @@ info
    /\ i' = i + 1
    /\ UNCHANGED <<inputs, pc>>

\* faulty variant: `return allPaths` for `continue` on an out-of-bounds endpoint
IterOutOfBounds_Break ==
    /\ pc = "loop" /\ i <= Len(strategies)
    /\ OutOfBoundsCase
    /\ pc' = "returned"
    /\ UNCHANGED <<inputs, i, allPaths, info>>

\* lines 61-66: start or end outside the grid
IterOutOfBounds ==
    /\ pc = "loop" /\ i <= Len(strategies)
    /\ OutOfBoundsCase
    /\ Store

\* lines 76-92: no water can be reached from the on-land start (lines 78-80)
\* or from the on-land end (lines 87-89)
IterNoWater ==
    /\ pc = "loop" /\ i <= Len(strategies)
    /\ ~OutOfBoundsCase
    /\ NoWaterFrom(startLatLng) \/ NoWaterFrom(endLatLng)
    /\ Store

\* lines 94-112: the search runs; its result is a route or none
IterSearch ==
    /\ pc = "loop" /\ i <= Len(strategies)
    /\ ~OutOfBoundsCase
    /\ ~NoWaterFrom(startLatLng)
    /\ ~NoWaterFrom(endLatLng)
    /\ Store

\* line 115: return allPaths
Return ==
    /\ pc = "loop" /\ i > Len(strategies)
    /\ pc' = "returned"
    /\ UNCHANGED <<inputs, i, allPaths, info>>

Next ==
    \/ IterOutOfBounds
    \/ IterNoWater
    \/ IterSearch
    \/ Return

Spec == Init /\ [][Next]_vars

SpecEnv == InitEnv /\ [][Next]_vars

\* ------------------------------------------- pricing of a single segment
\* the handysize_bulk preset with the form defaults k = 0.005, F = S = 1
HandysizeBulk ==
    [shipLength |-> 130, beam |-> 20, speed |-> 14, draft |-> 10, hpReq |-> 8000,
     fuelRate |-> 200, k |-> 5, baseWeight |-> 20000, load |-> 35000,
     F |-> 1000, S |-> 1000]

\* a current of the vessel's own speed (10 kn = 5.144 m/s) setting west
Stalling ==
    [CalmDeep EXCEPT !.current_speed_mps = VshipOf(FishingTrawler),
                     !.current_direction_deg = 270]

\* closed pack ice (concentration 1.0) over water one draught of the trawler deep
PackIce == [CalmDeep EXCEPT !.ice_conc = 1000, !.depth = 5]

\* depths in metres around the thresholds of depthCostMutiplier for the
\* drafts 5 and 10: depth / draft from 0.5 to 6
ShallowDepths == {5, 6, 15, 25, 30}

\* calm water and the storm over each of these depths
ShallowSamples ==
    {[s EXCEPT !.depth = d] :
        s \in {CalmDeep} \cup {r \in RoughSamples : r.wind_speed_mps > 0},
        d \in ShallowDepths}

\* the samples of the weather runs, each of them with its depth missing, the
\* shallow samples and the pack ice
CostSamples ==
    {CalmDeep} \cup RoughSamples \cup {[s EXCEPT !.depth = NoData] : s \in RoughSamples}
        \cup ShallowSamples \cup {PackIce}

\* the same sample in every cell
UniformCaches == {[k \in CellKeys |-> s] : s \in CostSamples}

\* rings of <<lng, lat>>: the two eastern columns, and the north-west cell
EastZone == <<<<3, -1>>, <<7, -1>>, <<7, 3>>, <<3, 3>>>>

NorthWestZone == <<<<-1, 1>>, <<1, 1>>, <<1, 3>>, <<-1, 3>>>>

ZoneSets == {<<>>, <<EastZone>>, <<NorthWestZone, EastZone>>}

InitCost ==
    /\ landGrid = GridOf([x \in XS |-> [y \in YS |-> 0]])
    /\ startLatLng \in InsidePoints
    /\ endLatLng \in InsidePoints
    /\ params \in {FishingTrawler, HandysizeBulk}
    /\ envCache \in UniformCaches
    /\ noGoZones \in ZoneSets
    /\ pc = "loop"
    /\ i = 1
    /\ allPaths = <<>>
    /\ info = <<>>

\* calculateSegmentCost from the cell of startLatLng to the cell of endLatLng
PricingWith(zones) ==
    calculateSegmentCost(latLngToGrid(landGrid, startLatLng),
                         latLngToGrid(landGrid, endLatLng),
                         landGrid, params, envCache, strategies[i], zones)

\* one strategy: the segment priced with the zones of the request and with
\* none, and the two-point path of the segment re-priced
PriceSegment ==
    /\ pc = "loop" /\ i <= Len(strategies)
    /\ info' = (strategies[i] :> [zoned |-> PricingWith(noGoZones),
                                  unzoned |-> PricingWith(<<>>)]) @@ info
    /\ allPaths' = (strategies[i] :>
                        recalculateTotalFuel(
                            <<PathPoint(landGrid, latLngToGrid(landGrid, startLatLng), 0),
                              PathPoint(landGrid, latLngToGrid(landGrid, endLatLng), 0)>>,
                            landGrid, params, envCache, strategies[i], noGoZones))
                   @@ allPaths
    /\ i' = i + 1
    /\ UNCHANGED <<inputs, pc>>

NextCost ==
    \/ PriceSegment
    \/ Return

SpecCost == InitCost /\ [][NextCost]_vars

\* ----------------------------------------------- the flat calm 5x5 scenario
FlatCells == 0..4

FlatKeys == FlatCells \X FlatCells

\* all water, all water but the centre cell, and no water at all
FlatRasters ==
    {[x \in FlatCells |-> [y \in FlatCells |-> 0]],
     [x \in FlatCells |-> [y \in FlatCells |-> IF x = 2 /\ y = 2 THEN 1 ELSE 0]],
     [x \in FlatCells |-> [y \in FlatCells |-> 1]]}

\* a point strictly inside every cell, and one point west of the grid
FlatPoints ==
    {[lat |-> k[2] * GridGeometry.resolution + GridGeometry.bounds.south
                 + (GridGeometry.resolution - 1),
      lng |-> k[1] * GridGeometry.resolution + GridGeometry.bounds.west
                 + (GridGeometry.resolution - 1)] : k \in FlatKeys}
    \cup {[lat |-> GridGeometry.bounds.south, lng |-> GridGeometry.bounds.west - 1]}

InitFlat ==
    /\ landGrid \in {GridOf(g) : g \in FlatRasters}
    /\ startLatLng \in FlatPoints
    /\ endLatLng \in FlatPoints
    /\ params = FishingTrawler
    /\ envCache = [k \in FlatKeys |-> CalmDeep]
    /\ noGoZones = <<>>
    /\ pc = "loop"
    /\ i = 1
    /\ allPaths = <<>>
    /\ info = <<>>

SpecFlat == InitFlat /\ [][Next]_vars

\* ------------------------------------------- a current that stalls the ship
\* the stalling current in one cell, or in every cell
StallCaches ==
    {[CalmCache EXCEPT ![k] = Stalling] : k \in CellKeys}
    \cup {[k \in CellKeys |-> Stalling]}

\* open water, a strait of three water cells along the southern row, and
\* no water at all
StallRasters ==
    {[x \in XS |-> [y \in YS |-> 0]],
     [x \in XS |-> [y \in YS |-> IF y = 0 /\ x < Cols - 1 THEN 0 ELSE 1]],
     [x \in XS |-> [y \in YS |-> 1]]}

InitStall == Setup(StallRasters, StallCaches, {FishingTrawler}, {<<>>})

SpecStall == InitStall /\ [][Next]_vars

\* ------------------------------------------------ requests with no-go zones
\* open water, the strait along the southern row, water divided by land in
\* every second column, and no water at all
ZoneRasters ==
    StallRasters \cup {[x \in XS |-> [y \in YS |-> IF x % 2 = 1 THEN 1 ELSE 0]]}

\* rings of <<lng, lat>>: the second column, and the whole grid
MidZone == <<<<1, -1>>, <<3, -1>>, <<3, 3>>, <<1, 3>>>>

WholeZone ==
    <<<<-1, -1>>, <<Cols * GridGeometry.resolution, -1>>,
      <<Cols * GridGeometry.resolution, Rows * GridGeometry.resolution>>,
      <<-1, Rows * GridGeometry.resolution>>>>

RouteZoneSets == {<<>>, <<MidZone>>, <<WholeZone>>}

InitZone == Setup(ZoneRasters, {CalmCache}, {FishingTrawler}, RouteZoneSets)

SpecZone == InitZone /\ [][Next]_vars

\* --------------------------------------------- the coordinate conversions
GeoCols == 44

GeoRows == 2

\* grid files: cells of 2, 0.5 and 0.1 degrees, counted from the equator at
\* longitude 0 or from latitude 1 at longitude 95
Geometries ==
    {[grid |-> [x \in 0..(GeoCols - 1) |-> [y \in 0..(GeoRows - 1) |-> 0]],
      bounds |-> [west |-> NumberOf(b[1]), south |-> NumberOf(b[2])],
      resolution |-> Decimal(r[1], r[2])] :
        b \in {<<0, 0>>, <<95, 1>>}, r \in {<<2, 1>>, <<1, 2>>, <<1, 10>>}}

InitGrid ==
    /\ landGrid \in {NavigationGrid(gridData) : gridData \in Geometries}
    /\ startLatLng = Null
    /\ endLatLng = Null
    /\ params = FishingTrawler
    /\ envCache = [k \in (0..(GeoCols - 1)) \X (0..(GeoRows - 1)) |-> CalmDeep]
    /\ noGoZones = <<>>
    /\ pc = "loop"
    /\ i = 1
    /\ allPaths = <<>>
    /\ info = <<>>

\* gridToLatLng(x, y) for a cell of the grid
GridToLatLngCall ==
    /\ pc = "loop" /\ startLatLng = Null
    /\ \E x \in 0..(landGrid.cols - 1), y \in 0..(landGrid.rows - 1) :
        /\ startLatLng' = gridToLatLngNumber(landGrid, x, y)
        /\ info' = [cell |-> [x |-> x, y |-> y]]
    /\ UNCHANGED <<landGrid, endLatLng, params, envCache, noGoZones, pc, i, allPaths>>

\* the cell latLngToGrid finds for (lat, lng), and gridToLatLng of that cell
ConvertedBack(grid, node) == [node |-> node, corner |-> gridToLatLngNumber(grid, node.x, node.y)]

\* latLngToGrid of the coordinate gridToLatLng returned, as recalculateTotalFuel
\* does for every point of a path
LatLngToGridCall ==
    /\ pc = "loop" /\ startLatLng # Null /\ endLatLng = Null
    /\ info' = [cell |-> info.cell,
                back |-> ConvertedBack(landGrid, latLngToGridNumber(landGrid, startLatLng))]
    /\ pc' = "returned"
    /\ UNCHANGED <<inputs, i, allPaths>>

\* calculateDistance between two cells of one row that lie dx columns apart,
\* in km rounded up, for the cell sizes of Geometries
RowDistanceKm(grid, dx) ==
    IF dx = 0 THEN 0
    ELSE IF grid.resolution = Decimal(2, 1) THEN <<223, 445>>[dx]
    ELSE IF grid.resolution = Decimal(1, 2) THEN <<56, 112>>[dx]
    ELSE <<12, 23>>[dx]

\* calculateSegmentCost between two cells of one row, outside every no-go zone
RowSegmentCost(fromNode, toNode, grid, strategy) ==
    SegmentCostOf(calculateFuelPerKm(params),
                  RowDistanceKm(grid, IF toNode.x >= fromNode.x THEN toNode.x - fromNode.x
                                      ELSE fromNode.x - toNode.x),
                  [deg |-> 9000, sin |-> 1000, cos |-> 0],
                  SpeedKmhOf(params),
                  envCache[Key(fromNode)],
                  weatherPenaltyWeightOf(strategy),
                  FALSE,
                  params)

\* runAStar from a cell to its eastern neighbour: the goal node's g is the cost
\* of that one segment, and reconstructAndFormatPath formats the two cells
RunAStarCall ==
    /\ pc = "loop" /\ startLatLng = Null
    /\ \E x \in 0..(landGrid.cols - 2), y \in 0..(landGrid.rows - 1), n \in 1..Len(strategies) :
        LET currentNode == [x |-> x, y |-> y]
            neighbor == [x |-> x + 1, y |-> y]
        IN /\ startLatLng' = gridToLatLngNumber(landGrid, currentNode.x, currentNode.y)
           /\ endLatLng' = gridToLatLngNumber(landGrid, neighbor.x, neighbor.y)
           /\ i' = n
           /\ info' = [cell |-> currentNode, next |-> neighbor,
                       g |-> 0 + RowSegmentCost(currentNode, neighbor, landGrid,
                                                strategies[n]).fuelCost]
    /\ UNCHANGED <<landGrid, params, envCache, noGoZones, pc, allPaths>>

\* recalculateTotalFuel of that two-point path: the cells are looked up again
\* from the coordinates of the points
RecalculateCall ==
    /\ pc = "loop" /\ endLatLng # Null
    /\ LET fromNode == latLngToGridNumber(landGrid, startLatLng)
           toNode == latLngToGridNumber(landGrid, endLatLng)
       IN info' = [cell |-> info.cell, next |-> info.next, g |-> info.g,
                   fromNode |-> fromNode, toNode |-> toNode,
                   totalFuel |-> 0 + RowSegmentCost(fromNode, toNode, landGrid,
                                                    strategies[i]).fuelCost]
    /\ pc' = "returned"
    /\ UNCHANGED <<inputs, i, allPaths>>

NextGrid ==
    \/ GridToLatLngCall
    \/ LatLngToGridCall
    \/ RunAStarCall
    \/ RecalculateCall

SpecGrid == InitGrid /\ [][NextGrid]_vars

\* ------------------------------------------------- a MinHeap on its own
\* the most operations applied to one heap
MaxOps == 5

\* the entries pushed: two cells with each of three priorities
HeapEntries == {[x |-> x, f |-> f] : x \in 0..1, f \in 1..3}

\* new MinHeap(): info holds the heap with the record of what was pushed and
\* popped, i counts the calls made
InitHeap ==
    /\ landGrid = Null
    /\ startLatLng = Null
    /\ endLatLng = Null
    /\ params = Null
    /\ envCache = <<>>
    /\ noGoZones = <<>>
    /\ pc = "loop"
    /\ i = 0
    /\ allPaths = <<>>
    /\ info = [heap |-> <<>>, pushes |-> 0, pops |-> 0,
               stored |-> [e \in HeapEntries |-> 0],
               before |-> <<>>, returned |-> Null, call |-> "new"]

PushCall ==
    /\ pc = "loop" /\ i < MaxOps
    /\ \E node \in HeapEntries :
        info' = [heap |-> HeapPush(info.heap, node),
                 pushes |-> info.pushes + 1, pops |-> info.pops,
                 stored |-> [info.stored EXCEPT ![node] = @ + 1],
                 before |-> info.heap, returned |-> Null, call |-> "push"]
    /\ i' = i + 1
    /\ UNCHANGED <<inputs, pc, allPaths>>

PopCall ==
    /\ pc = "loop" /\ i < MaxOps
    /\ LET min == HeapMin(info.heap)
       IN info' = [heap |-> HeapPop(info.heap),
                   pushes |-> info.pushes,
                   pops |-> IF min = Null THEN info.pops ELSE info.pops + 1,
                   stored |-> IF min = Null THEN info.stored
                              ELSE [info.stored EXCEPT ![min[1]] = @ - 1],
                   before |-> info.heap, returned |-> min, call |-> "pop"]
    /\ i' = i + 1
    /\ UNCHANGED <<inputs, pc, allPaths>>

NextHeap ==
    \/ PushCall
    \/ PopCall

SpecHeap == InitHeap /\ [][NextHeap]_vars

\* ------------------------------------------------- the POST /api/route handler
\* findPath: the stored path of each strategy
findPath(grid, start, end, vessel, cache, zones) ==
    [s \in Range(strategies) |-> FindPathIteration(s, grid, start, end, vessel, cache, zones).path]

\* lines 231-245: each point with the sample of its cell
sanitizedPaths(paths, grid, cache) ==
    [s \in DOMAIN paths |->
        [k \in DOMAIN paths[s] |->
            [env |-> cache[Key(latLngToGrid(grid, paths[s][k]))]] @@ paths[s][k]]]

maxRetries == 3

\* the most uploads of a temporary grid next to one route request
MaxUploads == 2

\* bodies of POST /api/grid/temporary-upload: no grid, an empty grid array, the
\* strait and a grid without water
UploadBodies ==
    {Null, [grid |-> <<>>, bounds |-> GridGeometry.bounds,
            resolution |-> GridGeometry.resolution]}
    \cup {[grid |-> g, bounds |-> GridGeometry.bounds,
           resolution |-> GridGeometry.resolution] :
            g \in {[x \in XS |-> [y \in YS |-> IF y = 0 /\ x < Cols - 1 THEN 0 ELSE 1]],
                   [x \in XS |-> [y \in YS |-> 1]]}}

\* the server after initializeServer, with grid-cache.json missing or holding
\* open water, and the body of the route request that is about to arrive
InitServer ==
    /\ landGrid \in {Null, GridOf([x \in XS |-> [y \in YS |-> 0]])}
    /\ startLatLng = [lat |-> 1, lng |-> 1]
    /\ endLatLng \in {[lat |-> 1, lng |-> 5], [lat |-> 3, lng |-> 7]}
    /\ params \in {Null, FishingTrawler}
    /\ envCache = Null
    /\ noGoZones = <<>>
    /\ pc = "listening"
    /\ i = 0
    /\ allPaths = <<>>
    /\ info = [temporaryGrid |-> Null, uploads |-> 0, gridToUse |-> Null,
               cacheGrid |-> Null, findPathGrid |-> Null, attempts |-> <<>>,
               calls |-> <<>>, response |-> Null]

\* POST /api/grid/temporary-upload, handled while no other handler is running
TemporaryUpload ==
    /\ info.uploads < MaxUploads
    /\ \E newGridData \in UploadBodies :
        info' = [info EXCEPT
                    !.uploads = @ + 1,
                    !.temporaryGrid =
                        IF newGridData = Null THEN @
                        ELSE IF DOMAIN newGridData.grid = {} THEN Null
                        ELSE NavigationGrid(newGridData)]
    /\ UNCHANGED <<inputs, pc, i, allPaths>>

\* lines 161-196: the handler up to its first await of envCache.initialize()
RouteRequest ==
    /\ pc = "listening"
    /\ LET gridToUse == IF info.temporaryGrid # Null THEN info.temporaryGrid ELSE landGrid
       IN IF gridToUse = Null
          THEN /\ info' = [info EXCEPT !.response = [status |-> 503]]
               /\ pc' = "responded"
               /\ i' = i
          ELSE IF params = Null
          THEN /\ info' = [info EXCEPT !.gridToUse = gridToUse,
                                       !.response = [status |-> 400]]
               /\ pc' = "responded"
               /\ i' = i
          ELSE /\ info' = [info EXCEPT !.gridToUse = gridToUse,
                                       !.cacheGrid = gridToUse,
                                       !.calls = Append(@, "initialize")]
               /\ pc' = "initialize"
               /\ i' = 1
    /\ UNCHANGED <<inputs, allPaths>>

\* faulty variant: the grid is read again when the data has arrived
InitializeSucceeds_ReadsGridAgain ==
    /\ pc = "initialize"
    /\ LET gridNow == IF info.temporaryGrid # Null THEN info.temporaryGrid ELSE landGrid
           paths == findPath(gridNow, startLatLng, endLatLng, params, CalmCache, noGoZones)
       IN /\ envCache' = CalmCache
          /\ allPaths' = paths
          /\ info' = [info EXCEPT
                        !.attempts = Append(@, TRUE),
                        !.calls = Append(@, "findPath"),
                        !.findPathGrid = gridNow,
                        !.response = [status |-> 200,
                                      paths |-> sanitizedPaths(paths, gridNow, CalmCache),
                                      bounds |-> gridNow.bounds,
                                      resolution |-> gridNow.resolution]]
    /\ pc' = "responded"
    /\ UNCHANGED <<landGrid, startLatLng, endLatLng, params, noGoZones, i>>

\* initialize() resolves to true: lines 197-200 and 208-247, the search and
\* the response
InitializeSucceeds ==
    /\ pc = "initialize"
    /\ LET paths == findPath(info.gridToUse, startLatLng, endLatLng, params,
                             CalmCache, noGoZones)
       IN /\ envCache' = CalmCache
          /\ allPaths' = paths
          /\ info' = [info EXCEPT
                        !.attempts = Append(@, TRUE),
                        !.calls = Append(@, "findPath"),
                        !.findPathGrid = info.gridToUse,
                        !.response = [status |-> 200,
                                      paths |-> sanitizedPaths(paths, info.gridToUse,
                                                               CalmCache),
                                      bounds |-> info.gridToUse.bounds,
                                      resolution |-> info.gridToUse.resolution]]
    /\ pc' = "responded"
    /\ UNCHANGED <<landGrid, startLatLng, endLatLng, params, noGoZones, i>>

\* faulty variant: `attempt <= maxRetries` guards the delay, and the loop goes
\* on after the third failure
InitializeFails_RetriesOn ==
    /\ pc = "initialize"
    /\ envCache' = Null
    /\ info' = [info EXCEPT !.attempts = Append(@, FALSE)]
    /\ IF i <= maxRetries
       THEN pc' = "retryDelay"
       ELSE pc' = "responded"
    /\ UNCHANGED <<landGrid, startLatLng, endLatLng, params, noGoZones, i, allPaths>>

\* initialize() resolves to false: lines 197-206, the delay before the next
\* attempt or the 500 after the last one
InitializeFails ==
    /\ pc = "initialize"
    /\ envCache' = Null
    /\ IF i < maxRetries
       THEN /\ info' = [info EXCEPT !.attempts = Append(@, FALSE)]
            /\ pc' = "retryDelay"
       ELSE /\ info' = [info EXCEPT !.attempts = Append(@, FALSE),
                                    !.response = [status |-> 500]]
            /\ pc' = "responded"
    /\ UNCHANGED <<landGrid, startLatLng, endLatLng, params, noGoZones, i, allPaths>>

\* the retry delay has passed: the next iteration of the for loop
RetryDelayElapses ==
    /\ pc = "retryDelay"
    /\ i' = i + 1
    /\ info' = [info EXCEPT !.calls = Append(@, "initialize")]
    /\ pc' = "initialize"
    /\ UNCHANGED <<inputs, allPaths>>

NextServer ==
    \/ TemporaryUpload
    \/ RouteRequest
    \/ InitializeSucceeds
    \/ InitializeFails
    \/ RetryDelayElapses

SpecServer == InitServer /\ [][NextServer]_vars

\* ------------------------------------------------- reference definitions
\* The neighbour relation of the design: 8-connected, x wraps modulo cols,
\* y does not wrap, and a diagonal step is suppressed when both orthogonal
\* cells adjacent to it are land.
Adjacent(u, v, grid) ==
    \E di \in {-1, 0, 1}, dj \in {-1, 0, 1} :
        /\ ~(di = 0 /\ dj = 0)
        /\ v.y = u.y + dj
        /\ v.y >= 0 /\ v.y < grid.rows
        /\ v.x = (u.x + di + grid.cols) % grid.cols
        /\ (di # 0 /\ dj # 0) =>
              ~(grid.grid[(u.x + di + grid.cols) % grid.cols][u.y] = 1
                /\ grid.grid[u.x][u.y + dj] = 1)

NodesOf(grid) == {[x |-> a, y |-> b] : a \in 0..(grid.cols - 1), b \in 0..(grid.rows - 1)}

\* the cell whose south-west corner a path point carries
CellAt(grid, point) ==
    CHOOSE n \in NodesOf(grid) :
        /\ n.x * grid.resolution + grid.bounds.west = point.lng
        /\ n.y * grid.resolution + grid.bounds.south = point.lat

\* a request coordinate lies outside the rectangle the grid covers
OutsideGrid(grid, latlng) ==
    \/ latlng.lng < grid.bounds.west
    \/ latlng.lng >= grid.bounds.west + grid.cols * grid.resolution
    \/ latlng.lat < grid.bounds.south
    \/ latlng.lat >= grid.bounds.south + grid.rows * grid.resolution

\* the cell containing an in-grid request coordinate
CellContaining(grid, latlng) ==
    CHOOSE n \in NodesOf(grid) :
        /\ n.x * grid.resolution + grid.bounds.west <= latlng.lng
        /\ latlng.lng < (n.x + 1) * grid.resolution + grid.bounds.west
        /\ n.y * grid.resolution + grid.bounds.south <= latlng.lat
        /\ latlng.lat < (n.y + 1) * grid.resolution + grid.bounds.south

\* cells reachable from the set `from` by steps the search may take towards
\* `goal`: out of a cell of the set into a neighbour that is water or the goal
RECURSIVE SailableFrom(_, _, _)
SailableFrom(from, goal, grid) ==
    LET more == {v \in NodesOf(grid) :
                    /\ v \notin from
                    /\ (grid.grid[v.x][v.y] = 0 \/ v = goal)
                    /\ \E u \in from : u # goal /\ Adjacent(u, v, grid)}
    IN IF more = {} THEN from ELSE SailableFrom(from \cup more, goal, grid)

\* cells reachable from the set `from` by neighbour steps across any cells
RECURSIVE WalkableFrom(_, _)
WalkableFrom(from, grid) ==
    LET more == {v \in NodesOf(grid) :
                    v \notin from /\ \E u \in from : Adjacent(u, v, grid)}
    IN IF more = {} THEN from ELSE WalkableFrom(from \cup more, grid)

\* the least number of neighbour steps from a cell of `seen` to a water cell,
\* n steps having been taken to cover `seen`; -1 when there is none
RECURSIVE HopsToWater(_, _, _)
HopsToWater(seen, n, grid) ==
    LET more == {v \in NodesOf(grid) :
                    v \notin seen /\ \E u \in seen : Adjacent(u, v, grid)}
    IN IF \E u \in seen : grid.grid[u.x][u.y] = 0 THEN n
       ELSE IF more = {} THEN -1
       ELSE HopsToWater(seen \cup more, n + 1, grid)

Routed(s) == s \in DOMAIN info /\ info[s].outcome = "route"

\* the least of a non-empty set of numbers
Least(S) == CHOOSE m \in S : \A n \in S : m <= n

\* the moves a route may make towards goal: from a water cell other than the
\* goal to a neighbouring cell that is water or the goal
Moves(goal, grid) ==
    {e \in NodesOf(grid) \X NodesOf(grid) :
        /\ Adjacent(e[1], e[2], grid)
        /\ e[1] # goal
        /\ ~isLand(grid, e[2]) \/ e[2] = goal}

\* the cost model's price of every move, under the state's request (@@ <<>>
\* makes the table an explicit function, computed once)
MoveCosts(goal, strategy) ==
    [e \in Moves(goal, landGrid) |->
        calculateSegmentCost(e[1], e[2], landGrid, params, envCache, strategy,
                             noGoZones).fuelCost] @@ <<>>

\* exhaustive relaxation (Bellman-Ford): dist after n further rounds
RECURSIVE RelaxRounds(_, _, _)
RelaxRounds(dist, cost, n) ==
    IF n = 0 THEN dist
    ELSE RelaxRounds(
            [v \in DOMAIN dist |->
                Least({dist[v]} \cup {Plus(dist[e[1]], cost[e]) :
                                        e \in {d \in DOMAIN cost : d[2] = v}})] @@ <<>>,
            cost, n - 1)

\* the least total segment cost of the walks from start to goal, Infinity
\* when there is none
MinCost(start, goal, strategy) ==
    RelaxRounds([v \in NodesOf(landGrid) |-> IF v = start THEN 0 ELSE Infinity],
                MoveCosts(goal, strategy),
                Cardinality(NodesOf(landGrid)))[goal]

\* the A* start and end cells of a strategy's search, as plain cells
SearchStart(s) == info[s].aStarStartNode[1]
SearchEnd(s) == info[s].aStarEndNode[1]

\* --------------------------------------------------------------- claims

\* C1: findPath returns an object with exactly the keys balanced, fastest
\* and safest, each an array of points; an empty array for one strategy does
\* not stop the loop: the iteration of every strategy has run.
C1_ThreeArrays ==
    pc = "returned" =>
        /\ DOMAIN allPaths = {"balanced", "fastest", "safest"}
        /\ DOMAIN info = {"balanced", "fastest", "safest"}
        /\ \A s \in DOMAIN allPaths :
              /\ DOMAIN allPaths[s] = 1..Len(allPaths[s])
              /\ \A k \in 1..Len(allPaths[s]) :
                    {"lat", "lng", "onLand", "totalFuel"} \subseteq DOMAIN allPaths[s][k]
              /\ info[s].outcome # "route" => allPaths[s] = <<>>

C1_Witness ==
    /\ pc = "returned"
    /\ allPaths["balanced"] = <<>>
    /\ "runAStar" \in Range(info["safest"].calls)

\* C2 as stated: in every returned path every point other than the first and
\* the last is a water cell.
C2_OnlyEndpointsOnLand ==
    \A s \in DOMAIN allPaths :
        \A k \in 2..(Len(allPaths[s]) - 1) : ~allPaths[s][k].onLand

\* C2 amended: in every returned path the land points form a leading run
\* (present only when the start is on land) and a trailing run (present only
\* when the end is on land): every point between two water points is water.
C2_LandOnlyInBridges ==
    \A s \in DOMAIN allPaths :
        LET path == allPaths[s]
        IN /\ \A a \in 1..Len(path), b \in 1..Len(path), c \in 1..Len(path) :
                (a < b /\ b < c /\ ~path[a].onLand /\ ~path[c].onLand)
                    => ~path[b].onLand
           /\ \A k \in 1..Len(path) :
                path[k].onLand <=> landGrid.grid[CellAt(landGrid, path[k]).x]
                                                [CellAt(landGrid, path[k]).y] = 1
           /\ (Len(path) > 0 /\ path[1].onLand) =>
                isLand(landGrid, CellContaining(landGrid, startLatLng))
           /\ (Len(path) > 0 /\ path[Len(path)].onLand) =>
                isLand(landGrid, CellContaining(landGrid, endLatLng))

\* a route whose bridge from the start crosses a second land cell and whose
\* water section has a cell beyond the junction
C2_Witness ==
    /\ Routed("balanced")
    /\ Len(allPaths["balanced"]) >= 4
    /\ allPaths["balanced"][1].onLand
    /\ allPaths["balanced"][2].onLand
    /\ ~allPaths["balanced"][3].onLand
    /\ ~allPaths["balanced"][4].onLand

\* C6: when the start or the end coordinate lies outside the grid, the
\* strategy's iteration calls neither the bridge search nor runAStar and its
\* result is the empty array.
C6_OutOfBoundsBeforeSearch ==
    \A s \in DOMAIN info :
        (OutsideGrid(landGrid, startLatLng) \/ OutsideGrid(landGrid, endLatLng)) =>
            /\ info[s].calls = <<>>
            /\ allPaths[s] = <<>>

\* the end lies north of the grid while the start is an in-grid land cell
C6_Witness ==
    /\ pc = "returned"
    /\ ~OutsideGrid(landGrid, startLatLng)
    /\ isLand(landGrid, CellContaining(landGrid, startLatLng))
    /\ OutsideGrid(landGrid, endLatLng)
    /\ allPaths["safest"] = <<>>

\* C7: when no sequence of allowed moves connects the A* start cell to the
\* A* end cell, runAStar returns null with the open set emptied, and the
\* strategy's result is the empty array.
C7_UnreachableGoal ==
    \A s \in DOMAIN info :
        ("runAStar" \in Range(info[s].calls)
         /\ info[s].aStarEndNode[1]
               \notin SailableFrom({info[s].aStarStartNode[1]},
                                   info[s].aStarEndNode[1], landGrid)) =>
            /\ info[s].waterPathResult = Null
            /\ allPaths[s] = <<>>
            /\ AStarLoop(AStarInit(info[s].aStarStartNode[1], info[s].aStarEndNode[1],
                                   landGrid, params, s),
                         info[s].aStarEndNode[1], landGrid, params, envCache, s,
                         noGoZones).openSet = <<>>

\* a search between two water cells that land separates
C7_Witness ==
    /\ "fastest" \in DOMAIN info
    /\ info["fastest"].calls = <<"runAStar">>
    /\ info["fastest"].outcome = "noWaterPath"
    /\ allPaths["fastest"] = <<>>

\* the properties C8 asks of one bridge, from the cell `from`
BridgeIsShortest(from, waterInfo, grid) ==
    LET path == waterInfo.path
        waterNode == waterInfo.waterNode
        n == Len(path)
    IN /\ n >= 1
       /\ CellAt(grid, path[1]) = from
       /\ CellAt(grid, path[n]) = [x |-> waterNode.x, y |-> waterNode.y]
       /\ grid.grid[waterNode.x][waterNode.y] = 0
       /\ \A k \in 1..(n - 1) :
             /\ grid.grid[CellAt(grid, path[k]).x][CellAt(grid, path[k]).y] = 1
             /\ Adjacent(CellAt(grid, path[k]), CellAt(grid, path[k + 1]), grid)
       /\ n - 1 = HopsToWater({from}, 0, grid)

\* C8: a bridge found from a land cell starts at that cell, ends at the
\* returned water node, which is water, crosses only land before it, steps
\* between neighbours, and has the least number of hops to any water cell.
C8_BridgeShortest ==
    \A s \in DOMAIN info :
        /\ info[s].startWaterInfo # Null =>
              BridgeIsShortest(CellContaining(landGrid, startLatLng),
                               info[s].startWaterInfo[1], landGrid)
        /\ info[s].endWaterInfo # Null =>
              BridgeIsShortest(CellContaining(landGrid, endLatLng),
                               info[s].endWaterInfo[1], landGrid)

\* a bridge of two hops
C8_Witness ==
    /\ "balanced" \in DOMAIN info
    /\ info["balanced"].startWaterInfo # Null
    /\ Len(info["balanced"].startWaterInfo[1].path) = 3

\* an in-grid endpoint on land from which no walk reaches a water cell
Landlocked(grid, latlng) ==
    /\ ~OutsideGrid(grid, latlng)
    /\ isLand(grid, CellContaining(grid, latlng))
    /\ \A v \in WalkableFrom({CellContaining(grid, latlng)}, grid) :
          grid.grid[v.x][v.y] = 1

\* C9: when the bridge search from an on-land endpoint finds no water, the
\* strategy's result is the empty array and runAStar is not invoked for it.
C9_BridgeFailure ==
    \A s \in DOMAIN info :
        (/\ ~OutsideGrid(landGrid, startLatLng)
         /\ ~OutsideGrid(landGrid, endLatLng)
         /\ (Landlocked(landGrid, startLatLng) \/ Landlocked(landGrid, endLatLng))) =>
            /\ allPaths[s] = <<>>
            /\ "runAStar" \notin Range(info[s].calls)
            /\ "findPathToNearestWater" \in Range(info[s].calls)

C9_Witness ==
    /\ pc = "returned"
    /\ Landlocked(landGrid, startLatLng)
    /\ ~OutsideGrid(landGrid, endLatLng)
    /\ info["safest"].calls = <<"findPathToNearestWater">>
    /\ allPaths["safest"] = <<>>

\* C10: in an assembled route no two consecutive points are the same cell,
\* consecutive points are grid neighbours, and each junction water cell (the
\* water node of a bridge) appears exactly once.
C10_RouteAssembly ==
    \A s \in DOMAIN info :
        info[s].outcome = "route" =>
            LET path == allPaths[s]
                Times1(node) ==
                    Cardinality({k \in 1..Len(path) :
                        CellAt(landGrid, path[k]) = [x |-> node.x, y |-> node.y]}) = 1
            IN /\ \A k \in 1..(Len(path) - 1) :
                     /\ CellAt(landGrid, path[k]) # CellAt(landGrid, path[k + 1])
                     /\ Adjacent(CellAt(landGrid, path[k]),
                                 CellAt(landGrid, path[k + 1]), landGrid)
               /\ info[s].startWaterInfo # Null =>
                     Times1(info[s].startWaterInfo[1].waterNode)
               /\ info[s].endWaterInfo # Null =>
                     Times1(info[s].endWaterInfo[1].waterNode)

\* C3: between two water cells connected by water, the cumulative cost g of
\* the node runAStar returns equals the least total segment cost over all
\* allowed paths, for every strategy.
C3_Optimal ==
    \A s \in DOMAIN info :
        (/\ info[s].waterPathResult # Null
         /\ info[s].startWaterInfo = Null
         /\ info[s].endWaterInfo = Null) =>
            info[s].waterPathResult[1].g = MinCost(SearchStart(s), SearchEnd(s), s)

\* C4: under 'fastest' and 'balanced' the heuristic from a cell to the end
\* never exceeds the least total segment cost between them.
C4_Admissible ==
    \A s \in DOMAIN info \cap {"fastest", "balanced"} :
        info[s].waterPathResult # Null =>
            heuristic(SearchStart(s), SearchEnd(s), landGrid, params, s)
                <= MinCost(SearchStart(s), SearchEnd(s), s)

\* C5: in every returned path totalFuel never decreases from one point to
\* the next, and is 0 at the first point.
C5_FuelMonotone ==
    \A s \in DOMAIN allPaths :
        LET path == allPaths[s]
        IN Len(path) > 0 =>
            /\ path[1].totalFuel = 0
            /\ \A k \in 1..(Len(path) - 1) : path[k + 1].totalFuel >= path[k].totalFuel

\* a re-priced route of three points or more that burns fuel, ending on land
C5_Witness ==
    /\ Routed("safest")
    /\ info["safest"].endWaterInfo # Null
    /\ Len(allPaths["safest"]) >= 3
    /\ allPaths["safest"][Len(allPaths["safest"])].totalFuel > 0
    /\ \E k \in CellKeys : envCache[k] # CalmDeep

\* the root of a parent chain: the node the search started from
RECURSIVE ChainRoot(_)
ChainRoot(node) == IF node.parent = Null THEN node ELSE ChainRoot(node.parent[1])

\* C11: when the start lies on a land cell and a route exists, the path begins
\* with the bridge: its first point is the on-land start cell, flagged
\* onLand, the bridge ends at the nearest water cell the BFS found, and
\* runAStar was started from exactly that water cell.
C11_LandStartPrefix ==
    \A s \in DOMAIN info :
        (Routed(s) /\ isLand(landGrid, CellContaining(landGrid, startLatLng))) =>
            /\ info[s].startWaterInfo # Null
            /\ LET bridge == info[s].startWaterInfo[1]
                   n == Len(bridge.path)
                   path == allPaths[s]
                   waterCell == [x |-> bridge.waterNode.x, y |-> bridge.waterNode.y]
               IN /\ Len(path) >= n
                  /\ \A k \in 1..n : CellAt(landGrid, path[k]) = CellAt(landGrid, bridge.path[k])
                  /\ CellAt(landGrid, path[1]) = CellContaining(landGrid, startLatLng)
                  /\ path[1].onLand
                  /\ CellAt(landGrid, path[n]) = waterCell
                  /\ ~isLand(landGrid, waterCell)
                  /\ n - 1 = HopsToWater({CellContaining(landGrid, startLatLng)}, 0, landGrid)
                  /\ info[s].aStarStartNode[1] = waterCell
                  /\ Key(ChainRoot(info[s].waterPathResult[1])) = Key(waterCell)

\* a route from a land start whose water section goes beyond the junction
C11_Witness ==
    /\ Routed("fastest")
    /\ info["fastest"].startWaterInfo # Null
    /\ Len(allPaths["fastest"]) >= 3
    /\ allPaths["fastest"][1].onLand
    /\ ~allPaths["fastest"][2].onLand
    /\ ~allPaths["fastest"][3].onLand
    /\ CellAt(landGrid, allPaths["fastest"][2]) # CellAt(landGrid, allPaths["fastest"][3])

\* C12: in the re-priced path a segment with an endpoint flagged onLand
\* carries segmentFuel 0 and leaves totalFuel where it was; a segment with
\* both endpoints on water carries the fuelCost of calculateSegmentCost.
C12_LandSegmentsFree ==
    \A s \in DOMAIN info :
        Routed(s) =>
            \A k \in 2..Len(allPaths[s]) :
                LET from == allPaths[s][k - 1]
                    to == allPaths[s][k]
                IN IF from.onLand \/ to.onLand
                   THEN /\ to.segmentFuel = 0
                        /\ to.totalFuel = from.totalFuel
                   ELSE /\ to.segmentFuel =
                              calculateSegmentCost(CellAt(landGrid, from), CellAt(landGrid, to),
                                                   landGrid, params, envCache, s,
                                                   noGoZones).fuelCost
                        /\ to.totalFuel = Plus(from.totalFuel, to.segmentFuel)

\* a route that leaves land over a segment of positive length, priced 0, and
\* then burns fuel on a water segment
C12_Witness ==
    /\ Routed("balanced")
    /\ Len(allPaths["balanced"]) >= 3
    /\ allPaths["balanced"][1].onLand
    /\ ~allPaths["balanced"][2].onLand
    /\ allPaths["balanced"][2].segmentDistance > 0
    /\ allPaths["balanced"][2].segmentFuel = 0
    /\ ~allPaths["balanced"][3].onLand
    /\ allPaths["balanced"][3].segmentFuel > 0
    /\ allPaths["balanced"][3].totalFuel = allPaths["balanced"][3].segmentFuel

\* the cells of the priced segment
SegmentFrom == CellContaining(landGrid, startLatLng)

SegmentTo == CellContaining(landGrid, endLatLng)

\* C13: a segment whose two endpoints are the same cell costs exactly 0 fuel
\* and 0 hours, for every vessel, strategy, sample and zone set; adding it to
\* a gScore leaves the gScore as it was, and the re-pricing pass records
\* segmentFuel 0 and an unchanged totalFuel for it.
C13_ZeroDistanceFree ==
    \A s \in DOMAIN info :
        SegmentFrom = SegmentTo =>
            /\ info[s].zoned.distanceKm = 0
            /\ info[s].zoned.fuelCost = 0
            /\ info[s].unzoned.fuelCost = 0
            /\ info[s].zoned.timeHours = 0
            /\ \A g \in {0, 1, Infinity} : Plus(g, info[s].zoned.fuelCost) = g
            /\ allPaths[s][2].segmentFuel = 0
            /\ allPaths[s][2].totalFuel = allPaths[s][1].totalFuel

\* a same-cell segment inside a no-go zone, in ice and wind, priced under
\* all three strategies for the larger vessel
C13_Witness ==
    /\ pc = "returned"
    /\ SegmentFrom = SegmentTo
    /\ isPointInNoGoZone(gridToLatLng(landGrid, SegmentTo.x, SegmentTo.y), noGoZones)
    /\ envCache[Key(SegmentFrom)].ice_conc > 0
    /\ params = HandysizeBulk
    /\ DOMAIN info = Range(strategies)

\* totalFuel at the last point of the route of strategy s
FinalFuel(s) == allPaths[s][Len(allPaths[s])].totalFuel

\* the route of strategy s leaves a cell with weather over a water segment
\* of positive length, so that the weather enters the price of the route
WeatherOnRoute(s) ==
    \E k \in 2..Len(allPaths[s]) :
        /\ ~allPaths[s][k - 1].onLand
        /\ ~allPaths[s][k].onLand
        /\ allPaths[s][k].segmentDistance > 0
        /\ envCache[Key(CellAt(landGrid, allPaths[s][k - 1]))] # CalmDeep

\* C14: when all three strategies return a route and each route crosses
\* weather, totalFuel at the end of the safest route is at least that of the
\* balanced route, which is at least that of the fastest route.
C14_StrategyOrdering ==
    (/\ pc = "returned"
     /\ \A s \in Range(strategies) : Routed(s) /\ WeatherOnRoute(s))
        => /\ FinalFuel("safest") >= FinalFuel("balanced")
           /\ FinalFuel("balanced") >= FinalFuel("fastest")

\* wind and current are zero in every cell
NoDirectionalForcing ==
    \A k \in DOMAIN envCache :
        envCache[k].wind_speed_mps = 0 /\ envCache[k].current_speed_mps = 0

\* the iteration of strategy s for the request with start and end exchanged
Reversed(s) ==
    FindPathIteration(s, landGrid, endLatLng, startLatLng, params, envCache, noGoZones)

\* a and b differ by at most one part in a hundred of the larger
ApproximatelyEqual(a, b) == Abs(a - b) * 100 <= Max(a, b)

\* C15: without wind and current anywhere, a strategy that routes start to
\* end also routes end to start, and totalFuel at the end of the two routes
\* is the same up to rounding.
C15_ReversalSymmetry ==
    \A s \in DOMAIN info :
        (Routed(s) /\ NoDirectionalForcing) =>
            /\ Reversed(s).outcome = "route"
            /\ ApproximatelyEqual(FinalFuel(s),
                                  Reversed(s).path[Len(Reversed(s).path)].totalFuel)

\* the request of the flat calm scenario: all water, from (0,0) to (4,4)
FlatScenario ==
    /\ landGrid.cols = 5 /\ landGrid.rows = 5
    /\ \A n \in NodesOf(landGrid) : ~isLand(landGrid, n)
    /\ ~OutsideGrid(landGrid, startLatLng) /\ ~OutsideGrid(landGrid, endLatLng)
    /\ CellContaining(landGrid, startLatLng) = [x |-> 0, y |-> 0]
    /\ CellContaining(landGrid, endLatLng) = [x |-> 4, y |-> 4]

\* the length of the diagonal route: the sum of its four segments
DiagonalDistanceKm ==
    calculateDistance([x |-> 0, y |-> 0], [x |-> 1, y |-> 1], landGrid)
    + calculateDistance([x |-> 1, y |-> 1], [x |-> 2, y |-> 2], landGrid)
    + calculateDistance([x |-> 2, y |-> 2], [x |-> 3, y |-> 3], landGrid)
    + calculateDistance([x |-> 3, y |-> 3], [x |-> 4, y |-> 4], landGrid)

\* C16: on the flat calm 5x5 all-water grid every strategy routes (0,0) to
\* (4,4) over the five cells of the diagonal; each segment burns
\* baseFuelPerKm times its length, and totalFuel at the end is baseFuelPerKm
\* times the length of the diagonal route, with no multiplier in it.
C16_FlatCalmDiagonal ==
    \A s \in DOMAIN info :
        FlatScenario =>
            /\ Routed(s)
            /\ Len(allPaths[s]) = 5
            /\ \A k \in 1..5 : CellAt(landGrid, allPaths[s][k]) = [x |-> k - 1, y |-> k - 1]
            /\ \A k \in 2..5 :
                   allPaths[s][k].segmentFuel
                       = calculateFuelPerKm(params) * allPaths[s][k].segmentDistance
            /\ FinalFuel(s) = calculateFuelPerKm(params) * DiagonalDistanceKm

\* the flat scenario returned under all three strategies, with fuel burnt
C16_Witness ==
    /\ pc = "returned"
    /\ FlatScenario
    /\ \A s \in Range(strategies) : Routed(s) /\ Len(allPaths[s]) = 5 /\ FinalFuel(s) > 0

\* the sample calculateSegmentCost reads: that of the origin cell
SegmentSample == envCache[Key(SegmentFrom)]

\* C17: a segment of positive length whose sample has no depth costs
\* 5 * baseFuelPerKm * distanceKm, whatever the strategy, the weather fields
\* of the sample and the no-go zones.
C17_MissingDepthFlat ==
    \A s \in DOMAIN info :
        (SegmentSample.depth = NoData /\ SegmentFrom # SegmentTo) =>
            /\ info[s].zoned.fuelCost
                   = 5 * calculateFuelPerKm(params)
                       * calculateDistance(SegmentFrom, SegmentTo, landGrid)
            /\ info[s].unzoned.fuelCost = info[s].zoned.fuelCost
            /\ info[s].zoned.fuelCost > 0

\* a depthless sample with wind, waves, ice and rain, a destination inside
\* a no-go zone, priced under all three strategies
C17_Witness ==
    /\ pc = "returned"
    /\ SegmentSample.depth = NoData
    /\ SegmentSample.wind_speed_mps > 0
    /\ SegmentFrom # SegmentTo
    /\ isPointInNoGoZone(gridToLatLng(landGrid, SegmentTo.x, SegmentTo.y), noGoZones)
    /\ info["safest"].zoned.fuelCost = info["fastest"].zoned.fuelCost

\* the destination of the priced segment lies inside a no-go zone
ZonedDestination ==
    isPointInNoGoZone(gridToLatLng(landGrid, SegmentTo.x, SegmentTo.y), noGoZones)

\* C18: with a known depth, a segment whose destination lies inside a
\* no-go zone costs 100 times what it costs with no zones; a destination
\* outside every zone leaves the cost unchanged.
C18_NoGoHundredfold ==
    \A s \in DOMAIN info :
        (SegmentSample.depth # NoData /\ SegmentFrom # SegmentTo) =>
            IF ZonedDestination
            THEN ApproximatelyEqual(info[s].zoned.fuelCost, 100 * info[s].unzoned.fuelCost)
            ELSE info[s].zoned.fuelCost = info[s].unzoned.fuelCost

\* the keys of the cells runAStar expands (adds to closedSet and relaxes the
\* neighbours of), in the order of the iterations of its while loop from s on
RECURSIVE Expansions(_, _, _, _, _, _, _)
Expansions(s, endNode, grid, vessel, cache, strategy, zones) ==
    IF s.done THEN <<>>
    ELSE (IF /\ Len(s.openSet) > 0
             /\ Key(s.openSet[1]) \notin s.closedSet
             /\ ~(s.openSet[1].x = endNode.x /\ s.openSet[1].y = endNode.y)
          THEN <<Key(s.openSet[1])>>
          ELSE <<>>)
         \o Expansions(AStarStep(s, endNode, grid, vessel, cache, strategy,
                                 zones),
                       endNode, grid, vessel, cache, strategy, zones)

\* the keys findPathToNearestWater pushes on its queue, in the order of the
\* iterations of its while loop from s on
RECURSIVE Enqueued(_, _)
Enqueued(s, grid) ==
    IF s.done THEN <<>>
    ELSE LET t == BfsStep(s, grid)
         IN IF t.done THEN <<>>
            ELSE [k \in 1..(Len(t.queue) - Len(s.queue) + 1) |->
                     Key(t.queue[Len(s.queue) - 1 + k])]
                 \o Enqueued(t, grid)

\* the start cell and every cell enqueued after it by the bridge search
EnqueuedFrom(cell, grid) == <<Key(cell)>> \o Enqueued(BfsInit(cell), grid)

NoRepeats(seq) == Cardinality(Range(seq)) = Len(seq)

\* C19: runAStar comes to an end having expanded no cell twice, hence at
\* most cols * rows cells; findPathToNearestWater from an on-land endpoint
\* comes to an end having enqueued no cell twice.
C19_BoundedSearch ==
    /\ \A s \in DOMAIN info :
           "runAStar" \in Range(info[s].calls) =>
               LET expanded == Expansions(AStarInit(SearchStart(s), SearchEnd(s), landGrid,
                                                    params, s),
                                          SearchEnd(s), landGrid, params, envCache, s,
                                          noGoZones)
               IN /\ NoRepeats(expanded)
                  /\ Len(expanded) <= landGrid.cols * landGrid.rows
    /\ \A p \in {startLatLng, endLatLng} :
           (~OutsideGrid(landGrid, p) /\ isLand(landGrid, CellContaining(landGrid, p))) =>
               LET enqueued == EnqueuedFrom(CellContaining(landGrid, p), landGrid)
               IN /\ NoRepeats(enqueued)
                  /\ Len(enqueued) <= landGrid.cols * landGrid.rows

\* a request whose bridge search enqueues every cell of the grid and whose
\* A* search under 'safest' expands four cells or more
C19_Witness ==
    /\ Routed("safest")
    /\ info["safest"].startWaterInfo # Null
    /\ Len(EnqueuedFrom(CellContaining(landGrid, startLatLng), landGrid))
           = landGrid.cols * landGrid.rows
    /\ Len(Expansions(AStarInit(SearchStart("safest"), SearchEnd("safest"), landGrid,
                                params, "safest"),
                      SearchEnd("safest"), landGrid, params, envCache, "safest",
                      noGoZones)) >= 4

\* the final state of runAStar from the A* start cell of strategy s to goal
SearchTo(s, goal) ==
    AStarLoop(AStarInit(SearchStart(s), goal, landGrid, params, s),
              goal, landGrid, params, envCache, s, noGoZones)

\* the cells of a parent chain, the returned node first
RECURSIVE ChainCells(_)
ChainCells(node) ==
    <<[x |-> node.x, y |-> node.y]>>
    \o (IF node.parent = Null THEN <<>> ELSE ChainCells(node.parent[1]))

\* the cells strictly between the two ends of a chain are water
InteriorIsWater(chain, grid) ==
    \A k \in 2..(Len(chain) - 1) : ~isLand(grid, chain[k])

\* what C20 asks of one finished search to goal: the cells that were given a
\* gScore, which are the cells pushed on the open set, are water or the goal
\* (or the start cell); a land goal next to an expanded cell was pushed; and
\* the parent chain of a returned node is water between its ends
LandIsWall(final, start, goal, grid) ==
    /\ \A n \in NodesOf(grid) :
           (Key(n) \in DOMAIN final.gScores /\ isLand(grid, n)) => (n = goal \/ n = start)
    /\ (isLand(grid, goal)
        /\ \E c \in NodesOf(grid) :
               Key(c) \in final.closedSet /\ goal \in Range(getNeighbors(c, grid)))
           => Key(goal) \in DOMAIN final.gScores /\ final.result # Null
    /\ final.result # Null => InteriorIsWater(ChainCells(final.result[1]), grid)

\* C20: in every search that findPath ran, and in the search from the same
\* start cell to each land cell of the grid, a land neighbour is pushed on
\* the open set if and only if it is the end cell, and the parent chain of
\* the returned node is water except for its first and last cell.
C20_LandIsHardWall ==
    pc = "returned" =>
        \A s \in DOMAIN info :
            "runAStar" \in Range(info[s].calls) =>
                /\ info[s].waterPathResult # Null =>
                       InteriorIsWater(ChainCells(info[s].waterPathResult[1]), landGrid)
                /\ \A goal \in {n \in NodesOf(landGrid) : isLand(landGrid, n)} \cup {SearchEnd(s)} :
                       LandIsWall(SearchTo(s, goal), SearchStart(s), goal, landGrid)

\* a search to a land cell that is returned over a chain of three cells or
\* more, on a grid with a second land cell that was never given a gScore
C20_Witness ==
    /\ pc = "returned"
    /\ "runAStar" \in Range(info["balanced"].calls)
    /\ \E goal \in NodesOf(landGrid) :
           /\ isLand(landGrid, goal)
           /\ SearchTo("balanced", goal).result # Null
           /\ Len(ChainCells(SearchTo("balanced", goal).result[1])) >= 3
           /\ \E n \in NodesOf(landGrid) :
                  /\ isLand(landGrid, n) /\ n # goal
                  /\ Key(n) \notin DOMAIN SearchTo("balanced", goal).gScores

\* the number of heap entries for the cell with key k
EntriesFor(openSet, k) == Cardinality({j \in 1..Len(openSet) : Key(openSet[j]) = k})

\* the popped entry of an iteration is stale: its cell is already closed
StalePop(s) == Len(s.openSet) > 0 /\ Key(s.openSet[1]) \in s.closedSet

\* what C21 asks of one iteration of the while loop, from state s to state t
ClosedIsFinal(s, t) ==
    /\ s.closedSet \subseteq t.closedSet
    /\ Cardinality(t.closedSet) <= Cardinality(s.closedSet) + 1
    /\ \A k \in s.closedSet :
           /\ t.gScores[k] = s.gScores[k]
           /\ EntriesFor(t.openSet, k) <= EntriesFor(s.openSet, k)
    /\ StalePop(s) =>
           /\ t.closedSet = s.closedSet
           /\ t.gScores = s.gScores
           /\ t.openSet = HeapPop(s.openSet)
           /\ ~t.done

\* ClosedIsFinal over every iteration of the while loop from s on
RECURSIVE ClosedIsFinalFrom(_, _, _, _, _, _, _)
ClosedIsFinalFrom(s, endNode, grid, vessel, cache, strategy, zones) ==
    s.done \/
        /\ ClosedIsFinal(s, AStarStep(s, endNode, grid, vessel, cache, strategy, zones))
        /\ ClosedIsFinalFrom(AStarStep(s, endNode, grid, vessel, cache, strategy, zones),
                             endNode, grid, vessel, cache, strategy, zones)

\* the number of stale pops in the while loop from s on
RECURSIVE StalePops(_, _, _, _, _, _, _)
StalePops(s, endNode, grid, vessel, cache, strategy, zones) ==
    IF s.done THEN 0
    ELSE (IF StalePop(s) THEN 1 ELSE 0)
         + StalePops(AStarStep(s, endNode, grid, vessel, cache, strategy, zones),
                     endNode, grid, vessel, cache, strategy, zones)

\* C21: in every search that ran, each iteration closes at most one cell and
\* never reopens one; a closed cell keeps its g-score and gains no heap
\* entry; a stale entry popped for a closed cell is dropped and nothing
\* else changes; no cell is expanded twice.
C21_ClosedSetFinal ==
    \A s \in DOMAIN info :
        (pc = "returned" /\ "runAStar" \in Range(info[s].calls)) =>
            /\ ClosedIsFinalFrom(AStarInit(SearchStart(s), SearchEnd(s), landGrid, params, s),
                                 SearchEnd(s), landGrid, params, envCache, s, noGoZones)
            /\ NoRepeats(Expansions(AStarInit(SearchStart(s), SearchEnd(s), landGrid,
                                              params, s),
                                    SearchEnd(s), landGrid, params, envCache, s, noGoZones))

\* a search that pops a stale entry for a closed cell and returns a node
C21_Witness ==
    \E s \in DOMAIN info :
        /\ Routed(s)
        /\ StalePops(AStarInit(SearchStart(s), SearchEnd(s), landGrid, params, s),
                     SearchEnd(s), landGrid, params, envCache, s, noGoZones) > 0

\* the iteration from state s expands a node: it pops an entry that is
\* neither stale nor the end cell
Expands(s, endNode) ==
    /\ ~s.done /\ Len(s.openSet) > 0
    /\ Key(s.openSet[1]) \notin s.closedSet
    /\ ~(s.openSet[1].x = endNode.x /\ s.openSet[1].y = endNode.y)

\* what C22 asks of the neighbour nb in the iteration from s to t that
\* expands currentNode, with newG the cumulative cost through currentNode
RelaxedExactly(s, t, currentNode, nb, newG, h) ==
    IF Key(nb) \notin DOMAIN s.gScores \/ newG < s.gScores[Key(nb)]
    THEN /\ EntriesFor(t.openSet, Key(nb)) = EntriesFor(s.openSet, Key(nb)) + 1
         /\ t.gScores[Key(nb)] = newG
         /\ \E j \in 1..Len(t.openSet) :
                t.openSet[j] = [x |-> nb.x, y |-> nb.y, g |-> newG, h |-> h,
                                f |-> Plus(newG, h), parent |-> Some(currentNode)]
    ELSE /\ EntriesFor(t.openSet, Key(nb)) = EntriesFor(s.openSet, Key(nb))
         /\ t.gScores[Key(nb)] = s.gScores[Key(nb)]

\* the neighbours the relaxation prices: not closed, and not land unless
\* the end cell
Priced(s, currentNode, endNode, grid) ==
    {nb \in Range(getNeighbors(currentNode, grid)) :
        /\ Key(nb) \notin s.closedSet \cup {Key(currentNode)}
        /\ ~(isLand(grid, nb) /\ nb # endNode)}

\* one iteration from s to t: g-scores never rise, and an expansion
\* re-enqueues exactly the priced neighbours that are new or strictly cheaper
RelaxationStep(s, t, endNode, grid, vessel, cache, strategy, zones) ==
    /\ \A k \in DOMAIN s.gScores : k \in DOMAIN t.gScores /\ t.gScores[k] <= s.gScores[k]
    /\ Expands(s, endNode) =>
           \A nb \in Priced(s, s.openSet[1], endNode, grid) :
               RelaxedExactly(s, t, s.openSet[1], nb,
                              Plus(s.openSet[1].g,
                                   calculateSegmentCost(s.openSet[1], nb, grid, vessel, cache,
                                                        strategy, zones).fuelCost),
                              heuristic(nb, endNode, grid, vessel, strategy))

RECURSIVE RelaxationFrom(_, _, _, _, _, _, _)
RelaxationFrom(s, endNode, grid, vessel, cache, strategy, zones) ==
    s.done \/
        /\ RelaxationStep(s, AStarStep(s, endNode, grid, vessel, cache, strategy, zones),
                          endNode, grid, vessel, cache, strategy, zones)
        /\ RelaxationFrom(AStarStep(s, endNode, grid, vessel, cache, strategy, zones),
                          endNode, grid, vessel, cache, strategy, zones)

\* the state of runAStar before the first iteration of the search of s
SearchInit(s) == AStarInit(SearchStart(s), SearchEnd(s), landGrid, params, s)

\* C22: the search starts with the start cell alone on the heap, with g = 0,
\* h = f = heuristic(start, end) and no parent; in every iteration a priced
\* neighbour gets a new heap entry, with the expanded node as parent,
\* exactly when it has no g-score or the new cost is strictly lower, and no
\* recorded g-score ever rises.
C22_RelaxationRule ==
    \A s \in DOMAIN info :
        (pc = "returned" /\ "runAStar" \in Range(info[s].calls)) =>
            /\ SearchInit(s).openSet
                   = <<[x |-> SearchStart(s).x, y |-> SearchStart(s).y, g |-> 0,
                        h |-> heuristic(SearchStart(s), SearchEnd(s), landGrid, params, s),
                        f |-> heuristic(SearchStart(s), SearchEnd(s), landGrid, params, s),
                        parent |-> Null]>>
            /\ SearchInit(s).gScores = (Key(SearchStart(s)) :> 0)
            /\ RelaxationFrom(SearchInit(s), SearchEnd(s), landGrid, params, envCache, s,
                              noGoZones)

\* the number of iterations from s on in which some priced neighbour
\* already has a g-score that the new cost does not beat
RECURSIVE Rejections(_, _, _, _, _, _, _)
Rejections(s, endNode, grid, vessel, cache, strategy, zones) ==
    IF s.done THEN 0
    ELSE (IF /\ Expands(s, endNode)
             /\ \E nb \in Priced(s, s.openSet[1], endNode, grid) :
                    /\ Key(nb) \in DOMAIN s.gScores
                    /\ Plus(s.openSet[1].g,
                            calculateSegmentCost(s.openSet[1], nb, grid, vessel, cache,
                                                 strategy, zones).fuelCost)
                           >= s.gScores[Key(nb)]
          THEN 1 ELSE 0)
         + Rejections(AStarStep(s, endNode, grid, vessel, cache, strategy, zones),
                      endNode, grid, vessel, cache, strategy, zones)

\* a returned search in which a neighbour was re-enqueued (a stale entry
\* was popped later) and another offer was turned down
C22_Witness ==
    \E s \in DOMAIN info :
        /\ Routed(s)
        /\ pc = "returned"
        /\ StalePops(SearchInit(s), SearchEnd(s), landGrid, params, envCache, s, noGoZones) > 0
        /\ Rejections(SearchInit(s), SearchEnd(s), landGrid, params, envCache, s, noGoZones) > 0

\* in the iteration from s to t no priced neighbour whose segment from the
\* expanded node costs +Infinity gains a g-score, a parent or a heap entry
InfiniteEdgesRefused(s, t, endNode, grid, vessel, cache, strategy, zones) ==
    Expands(s, endNode) =>
        \A nb \in Priced(s, s.openSet[1], endNode, grid) :
            calculateSegmentCost(s.openSet[1], nb, grid, vessel, cache, strategy,
                                 zones).fuelCost >= Infinity
                => /\ EntriesFor(t.openSet, Key(nb)) = EntriesFor(s.openSet, Key(nb))
                   /\ (Key(nb) \in DOMAIN t.gScores) = (Key(nb) \in DOMAIN s.gScores)
                   /\ Key(nb) \in DOMAIN s.gScores => t.gScores[Key(nb)] = s.gScores[Key(nb)]

RECURSIVE InfiniteEdgesRefusedFrom(_, _, _, _, _, _, _)
InfiniteEdgesRefusedFrom(s, endNode, grid, vessel, cache, strategy, zones) ==
    s.done \/
        /\ InfiniteEdgesRefused(s, AStarStep(s, endNode, grid, vessel, cache, strategy, zones),
                                endNode, grid, vessel, cache, strategy, zones)
        /\ InfiniteEdgesRefusedFrom(AStarStep(s, endNode, grid, vessel, cache, strategy, zones),
                                    endNode, grid, vessel, cache, strategy, zones)

\* C23: an edge that calculateSegmentCost prices at +Infinity never gives
\* its neighbour a g-score, a parent or a heap entry, and no returned path
\* has a segment of infinite cost.
C23_InfiniteEdgeRejected ==
    \A s \in DOMAIN info :
        "runAStar" \in Range(info[s].calls) =>
            /\ InfiniteEdgesRefusedFrom(SearchInit(s), SearchEnd(s), landGrid, params,
                                        envCache, s, noGoZones)
            /\ \A k \in 2..Len(allPaths[s]) : allPaths[s][k].segmentFuel < Infinity

\* the parent chain of node leads to the start cell, visits no cell twice,
\* and each node on it is a neighbour of its parent under getNeighbors
ChainIsBranch(node, start, grid) ==
    LET chain == ChainCells(node)
    IN /\ NoRepeats(chain)
       /\ chain[Len(chain)] = start
       /\ ChainRoot(node).parent = Null
       /\ \A k \in 1..(Len(chain) - 1) :
              chain[k] \in Range(getNeighbors(chain[k + 1], grid))

\* every entry on the heap is the tip of such a branch, in every iteration
\* of the while loop from s on
RECURSIVE ParentsFormTree(_, _, _, _, _, _, _, _)
ParentsFormTree(s, start, endNode, grid, vessel, cache, strategy, zones) ==
    /\ \A j \in 1..Len(s.openSet) : ChainIsBranch(s.openSet[j], start, grid)
    /\ s.done \/ ParentsFormTree(AStarStep(s, endNode, grid, vessel, cache, strategy, zones),
                                 start, endNode, grid, vessel, cache, strategy, zones)

\* C24: every node ever pushed in a search leads back to the start node
\* over parent links without a repeated cell; the returned node is at the
\* end cell, and the path reconstructed from it runs from the start cell to
\* the end cell over neighbouring cells, none of them twice.
C24_ParentTree ==
    \A s \in DOMAIN info :
        (pc = "returned" /\ "runAStar" \in Range(info[s].calls)) =>
            /\ ParentsFormTree(SearchInit(s), SearchStart(s), SearchEnd(s), landGrid, params,
                               envCache, s, noGoZones)
            /\ info[s].waterPathResult # Null =>
                   LET node == info[s].waterPathResult[1]
                       path == reconstructAndFormatPath(node, landGrid, 0)
                   IN /\ ChainIsBranch(node, SearchStart(s), landGrid)
                      /\ [x |-> node.x, y |-> node.y] = SearchEnd(s)
                      /\ Len(path) = Len(ChainCells(node))
                      /\ CellAt(landGrid, path[1]) = SearchStart(s)
                      /\ CellAt(landGrid, path[Len(path)]) = SearchEnd(s)
                      /\ \A k \in 1..Len(path) :
                             CellAt(landGrid, path[k])
                                 = ChainCells(node)[Len(path) + 1 - k]

\* a returned node whose chain has four cells or more
C24_Witness ==
    \E s \in DOMAIN info :
        /\ pc = "returned"
        /\ info[s].waterPathResult # Null
        /\ Len(ChainCells(info[s].waterPathResult[1])) >= 4

\* the offsets (i, j) of the eight surrounding positions
Surrounding == {o \in {-1, 0, 1} \X {-1, 0, 1} : o # <<0, 0>>}

\* the cell at offset o from n, with x wrapped modulo cols and y as it is
Wrapped(n, o, grid) == [x |-> (n.x + o[1]) % grid.cols, y |-> n.y + o[2]]

\* offset o from n is a neighbour by the rule of C25
IsNeighbour(n, o, grid) ==
    /\ n.y + o[2] >= 0 /\ n.y + o[2] < grid.rows
    /\ (o[1] # 0 /\ o[2] # 0) =>
           ~(/\ isLand(grid, [x |-> (n.x + o[1]) % grid.cols, y |-> n.y])
             /\ isLand(grid, [x |-> n.x, y |-> n.y + o[2]]))

\* C25: when findPath has returned, for every cell of its grid getNeighbors
\* returns at most 8 cells, all inside the grid, one for each surrounding position whose row exists (x
\* wrapped modulo cols, y not wrapped), except a diagonal position whose two
\* adjacent orthogonal cells are both land; an orthogonal position whose row
\* exists is always returned.
C25_NeighbourRule ==
    \A n \in IF pc = "returned" THEN NodesOf(landGrid) ELSE {} :
        LET neighbors == getNeighbors(n, landGrid)
        IN /\ Len(neighbors) <= 8
           /\ \A k \in 1..Len(neighbors) :
                  /\ neighbors[k].x \in 0..(landGrid.cols - 1)
                  /\ neighbors[k].y \in 0..(landGrid.rows - 1)
           /\ Range(neighbors)
                  = {Wrapped(n, o, landGrid) : o \in {p \in Surrounding : IsNeighbour(n, p, landGrid)}}
           /\ Len(neighbors) = Cardinality({p \in Surrounding : IsNeighbour(n, p, landGrid)})
           /\ \A o \in Surrounding :
                  (o[1] = 0 \/ o[2] = 0) /\ n.y + o[2] \in 0..(landGrid.rows - 1)
                      => Wrapped(n, o, landGrid) \in Range(neighbors)

\* a search has run on a grid where a diagonal step is suppressed between
\* two land cells and another diagonal step with one land cell beside it
\* is kept, one of them across the wrap of x
C25_Witness ==
    /\ pc = "returned"
    /\ "runAStar" \in Range(info["balanced"].calls)
    /\ \E n \in NodesOf(landGrid) : \E o \in Surrounding :
           /\ o[1] # 0 /\ o[2] # 0
           /\ n.y + o[2] \in 0..(landGrid.rows - 1)
           /\ ~IsNeighbour(n, o, landGrid)
           /\ Wrapped(n, o, landGrid) \notin Range(getNeighbors(n, landGrid))
    /\ \E n \in NodesOf(landGrid) : \E o \in Surrounding :
           /\ o[1] # 0 /\ o[2] # 0
           /\ n.x + o[1] \notin 0..(landGrid.cols - 1)
           /\ n.y + o[2] \in 0..(landGrid.rows - 1)
           /\ isLand(landGrid, [x |-> n.x, y |-> n.y + o[2]])
           /\ Wrapped(n, o, landGrid) \in Range(getNeighbors(n, landGrid))

\* C26: coordinate round trip: for every cell (x, y) of the grid, latLngToGrid of
\* gridToLatLng(x, y) is (x, y) again, and gridToLatLng of the cell latLngToGrid
\* finds for that coordinate is the coordinate itself, the lower-left corner of
\* the cell that contains it.
C26_CoordinateRoundTrip ==
    pc = "returned" /\ "back" \in DOMAIN info =>
        /\ info.back.node = info.cell
        /\ info.back.corner = startLatLng

\* the weight of the weather terms under a strategy
StrategyWeight(s) ==
    CASE s = "fastest" -> 200
      [] s = "safest" -> 5000
      [] OTHER -> 1000

\* wind + current + wave + rain + ice for a heading, a vessel and a sample
WeatherSum(boatBearing, vessel, sample) ==
    Plus(Plus(Plus(Plus(windCostMultiplier(boatBearing, calculateFuelPerKm(vessel), 1, vessel, sample),
                        currentCostMutiplier(boatBearing, vessel, sample)),
                   waveCostMutiplier(boatBearing, vessel, sample)),
              rainCostMutiplier(vessel, sample)),
         iceCostMutiplier(vessel, sample))

\* equal up to the rounding of five weighted terms
WithinRounding(a, b) == IF a >= Infinity \/ b >= Infinity THEN a = b ELSE a - b \in -5..5

\* the cost multiplier calculateSegmentCost computes for the priced segment
\* under strategy s, before the no-go factor
SegmentMultiplier(s) ==
    CostMultiplierOf(weatherPenaltyWeightOf(s), Heading(SegmentFrom, SegmentTo, landGrid),
                     calculateFuelPerKm(params), params, SegmentSample)

\* C27: for a segment of positive length with a known depth the cost
\* multiplier before the no-go factor is 1 + w * (wind + current + wave + rain
\* + ice) + depth with w = 0.2 for 'fastest', 5.0 for 'safest' and 1.0 for
\* 'balanced' and any other strategy name; the depth penalty enters at full
\* weight under every strategy, and the segment is priced with that multiplier.
C27_StrategyReweighting ==
    /\ weatherPenaltyWeightOf("economy") = 1000
    /\ \A s \in DOMAIN info :
        (SegmentSample.depth # NoData /\ SegmentFrom # SegmentTo) =>
            /\ WithinRounding(SegmentMultiplier(s),
                   Plus(Plus(1000, Weighted(StrategyWeight(s),
                                            WeatherSum(Heading(SegmentFrom, SegmentTo, landGrid),
                                                       params, SegmentSample))),
                        depthCostMutiplier(params, SegmentSample)))
            /\ info[s].unzoned
                   = PricedSegment(calculateFuelPerKm(params)
                                       * calculateDistance(SegmentFrom, SegmentTo, landGrid),
                                   calculateDistance(SegmentFrom, SegmentTo, landGrid),
                                   SegmentMultiplier(s), SpeedKmhOf(params),
                                   info[s].unzoned.effectiveSpeedKmh)

\* a storm over shallow water, priced under all three strategies: the weather
\* terms and the depth penalty are both nonzero and the three multipliers differ
C27_Witness ==
    /\ pc = "returned"
    /\ SegmentFrom # SegmentTo
    /\ SegmentSample.depth # NoData
    /\ SegmentSample.wind_speed_mps > 0
    /\ depthCostMutiplier(params, SegmentSample) \in 1..1000
    /\ SegmentMultiplier("fastest") < SegmentMultiplier("balanced")
    /\ SegmentMultiplier("balanced") < SegmentMultiplier("safest")
    /\ SegmentMultiplier("safest") - SegmentMultiplier("balanced")
           > 3 * (SegmentMultiplier("balanced") - SegmentMultiplier("fastest"))

\* C28: a segment between two distinct cells costs strictly more than zero
\* fuel, for every vessel, strategy, sample and zone set: with the depth
\* missing, and with the cost multiplier below its floor of 0.1 (favourable
\* current or following seas) as well.
C28_PositiveEdgeWeights ==
    \A s \in DOMAIN info :
        SegmentFrom # SegmentTo =>
            /\ info[s].zoned.fuelCost > 0
            /\ info[s].unzoned.fuelCost > 0
            /\ allPaths[s][2].segmentFuel > 0

\* a favourable current whose weighted multiplier brings the cost multiplier
\* of the 'safest' strategy to zero or below, priced under all three strategies
C28_Witness ==
    /\ pc = "returned"
    /\ SegmentFrom # SegmentTo
    /\ SegmentSample.depth # NoData
    /\ currentCostMutiplier(Heading(SegmentFrom, SegmentTo, landGrid), params, SegmentSample) < 0
    /\ SegmentMultiplier("safest") <= 0
    /\ info["safest"].unzoned.fuelCost > 0

\* the depth penalty of the design in thousandths, from ratio = depth / draft
\* for a depth and a draft in metres: 0 above 5, 5 below 1.2, and between them
\* 1 / (ratio - 1) = draft / (depth - draft), at most 1
DepthPenalty(depth, draft) ==
    IF depth * 10 > draft * 50 THEN 0
    ELSE IF depth * 10 < draft * 12 THEN 5000
    ELSE Min((1000 * draft) \div (depth - draft), 1000)

\* the depths of the samples
DepthsTried == ShallowDepths \cup {10, 1000}

\* depthCostMutiplier of the vessel of the state over the depth d
PenaltyAt(d) == depthCostMutiplier(params, [SegmentSample EXCEPT !.depth = d])

\* C29: for ratio = depth / draft depthCostMutiplier returns 0 when ratio > 5,
\* 5 when ratio < 1.2 and min(1 / (ratio - 1), 1.0) in between; it is
\* non-increasing in the ratio, 5 is returned only below 1.2 and every other
\* value is at most 1; the penalty is what the depth adds to the cost
\* multiplier of a priced segment.
C29_DepthPenalty ==
    /\ \A d \in DepthsTried :
        /\ PenaltyAt(d) = DepthPenalty(d, params.draft)
        /\ PenaltyAt(d) = 5000 <=> d * 10 < params.draft * 12
        /\ PenaltyAt(d) # 5000 => PenaltyAt(d) \in 0..1000
        /\ \A e \in DepthsTried : d <= e => PenaltyAt(d) >= PenaltyAt(e)
    /\ \A s \in DOMAIN info :
        (SegmentSample.depth # NoData /\ SegmentFrom # SegmentTo) =>
            SegmentMultiplier(s)
                = Plus(CostMultiplierOf(weatherPenaltyWeightOf(s),
                                        Heading(SegmentFrom, SegmentTo, landGrid),
                                        calculateFuelPerKm(params), params,
                                        [SegmentSample EXCEPT !.depth = 1000]),
                       DepthPenalty(SegmentSample.depth, params.draft))

\* a priced segment over water 2.5 draughts deep, where the penalty is
\* 1 / (ratio - 1) below its cap, for a vessel whose depths cover the flat
\* penalty 5, the cap 1.0 at ratio 1.2 exactly, and no penalty
C29_Witness ==
    /\ pc = "returned"
    /\ SegmentFrom # SegmentTo
    /\ SegmentSample.depth # NoData
    /\ depthCostMutiplier(params, SegmentSample) \in 1..999
    /\ SegmentSample.depth * 2 = params.draft * 5
    /\ \E d \in DepthsTried : PenaltyAt(d) = 5000
    /\ \E d \in DepthsTried : d * 10 >= params.draft * 12 /\ d * 10 <= params.draft * 15 /\ PenaltyAt(d) = 1000
    /\ \E d \in DepthsTried : PenaltyAt(d) = 0

\* getEffectiveSpeed on the heading of the priced segment
SpeedFrom(baseSpeedKmh, sample) ==
    getEffectiveSpeed(baseSpeedKmh, sample, Heading(SegmentFrom, SegmentTo, landGrid), params)

\* C30: getEffectiveSpeed returns at least 0.5 km/h for every base speed,
\* heading, vessel and sample (pack ice, depth below 1.2 draughts and a
\* current that opposes and stalls the ship included), so that the hours of a
\* segment between two distinct cells are finite, not negative and at most
\* distance / 0.5, in the result of calculateSegmentCost and in the segmentTime
\* of the re-priced path.
C30_EffectiveSpeedFloor ==
    SegmentFrom # SegmentTo =>
        /\ \A b \in {0, SpeedKmhOf(params)} :
              \A sample \in {SegmentSample, Stalling,
                             [Stalling EXCEPT !.ice_conc = 1000, !.depth = 5]} :
                  SpeedFrom(b, sample) >= 500
        /\ \A s \in DOMAIN info :
            /\ info[s].zoned.effectiveSpeedKmh >= 500
            /\ info[s].zoned.timeHours \in 0..(2000 * info[s].zoned.distanceKm)
            /\ info[s].zoned.timeHours < Infinity
            /\ allPaths[s][2].segmentTime = info[s].zoned.timeHours
            /\ allPaths[s][2].totalTime = info[s].zoned.timeHours

\* pack ice of concentration 1 over water shallower than 1.2 draughts stops
\* the ship: the speed is the floor itself and the hours are distance / 0.5
C30_Witness ==
    /\ pc = "returned"
    /\ SegmentFrom # SegmentTo
    /\ SegmentSample.ice_conc = 1000
    /\ SegmentSample.depth # NoData
    /\ SegmentSample.depth * 10 < params.draft * 12
    /\ info["balanced"].zoned.effectiveSpeedKmh = 500
    /\ info["balanced"].zoned.timeHours = 2000 * info["balanced"].zoned.distanceKm
    /\ allPaths["balanced"][2].segmentTime > 0

\* the state a runAStar call starts from is its own: an open set holding the
\* start node alone, an empty closed set and a g-score for the start only
FreshSearch(s) ==
    /\ SearchInit(s).closedSet = {}
    /\ DOMAIN SearchInit(s).gScores = {Key(SearchStart(s))}
    /\ Len(SearchInit(s).openSet) = 1
    /\ Key(SearchInit(s).openSet[1]) = Key(SearchStart(s))
    /\ SearchInit(s).openSet[1].g = 0

C32_RepricedTotalIsG ==
    pc = "returned" /\ "totalFuel" \in DOMAIN info => info.totalFuel = info.g

\* no entry of the array has f smaller than its parent's f
HeapProperty(heap) == \A k \in 2..Len(heap) : heap[k \div 2].f <= heap[k].f

\* how often an entry occurs in the array
Occurrences(heap, e) == Cardinality({k \in DOMAIN heap : heap[k] = e})

\* C33: MinHeap: after any sequence of push and pop calls the array has the
\* heap property, size() is the number of pushes minus the number of successful
\* pops, the entries stored are, as a multiset, the pushed entries without the
\* popped ones, a pop from a non-empty heap returns a stored entry of minimal
\* f, and a pop from an empty heap returns undefined and leaves it empty.
C33_MinHeap ==
    "heap" \in DOMAIN info =>
        /\ HeapProperty(info.heap)
        /\ Len(info.heap) = info.pushes - info.pops
        /\ \A e \in HeapEntries : Occurrences(info.heap, e) = info.stored[e]
        /\ Range(info.heap) \subseteq HeapEntries
        /\ info.call = "pop" /\ info.before # <<>> =>
            /\ info.returned # Null
            /\ info.returned[1] \in Range(info.before)
            /\ \A e \in Range(info.before) : info.returned[1].f <= e.f
            /\ Len(info.heap) = Len(info.before) - 1
        /\ info.call = "pop" /\ info.before = <<>> =>
            /\ info.returned = Null
            /\ info.heap = <<>>

\* a pop from a heap of four entries whose right child was smaller than the
\* left one: the entry moved to the root had to sink below the right child
C33_Witness ==
    /\ "heap" \in DOMAIN info
    /\ info.call = "pop"
    /\ Len(info.before) = 4
    /\ info.before[3].f < info.before[2].f
    /\ info.before[4].f > info.before[3].f
    /\ info.heap[1] = info.before[3]
    /\ info.heap[3] = info.before[4]
    /\ info.pops = 1

\* the points of a path that lie at the corner of a cell
PointsAt(path, grid, node) ==
    {k \in DOMAIN path : /\ path[k].lat = gridToLatLng(grid, node.x, node.y).lat
                         /\ path[k].lng = gridToLatLng(grid, node.x, node.y).lng}

\* C34: land end point: when the end coordinate lies on a land cell and a route
\* exists, the last point of the path findPath returns is the original on-land
\* end cell, flagged onLand, and the water cell found by the search from the
\* end appears exactly once in the path.
C34_LandEndPoint ==
    pc = "returned" =>
        \A s \in DOMAIN info :
            Routed(s) /\ info[s].endWaterInfo # Null =>
                /\ Len(allPaths[s]) \in PointsAt(allPaths[s], landGrid,
                                                latLngToGrid(landGrid, endLatLng))
                /\ allPaths[s][Len(allPaths[s])].onLand
                /\ Cardinality(PointsAt(allPaths[s], landGrid,
                                        info[s].endWaterInfo[1].waterNode)) = 1

\* C35: whether a route exists does not depend on the strategy: for every
\* request either all three of balanced, fastest and safest are non-empty or
\* all three are empty, and the three iterations end for the same reason.
C35_ExistenceIgnoresStrategy ==
    pc = "returned" =>
        /\ \A s \in DOMAIN info : Routed(s) <=> allPaths[s] # <<>>
        /\ \/ \A s \in DOMAIN info : allPaths[s] # <<>>
           \/ \A s \in DOMAIN info : allPaths[s] = <<>>
        /\ \A s, t \in DOMAIN info : info[s].outcome = info[t].outcome

\* three routes between cells at least two moves apart on a grid with land,
\* where the fastest search expanded more cells than the balanced one
C35_Witness ==
    /\ pc = "returned"
    /\ \A s \in DOMAIN info : Routed(s) /\ Len(allPaths[s]) >= 3
    /\ \E n \in NodesOf(landGrid) : isLand(landGrid, n)
    /\ Cardinality(AStarLoop(SearchInit("fastest"), SearchEnd("fastest"), landGrid,
                             params, envCache, "fastest", noGoZones).closedSet)
         > Cardinality(AStarLoop(SearchInit("balanced"), SearchEnd("balanced"), landGrid,
                                 params, envCache, "balanced", noGoZones).closedSet)

\* the cell of a path point lies inside a no-go zone
Zoned(point) == isPointInNoGoZone([lat |-> point.lat, lng |-> point.lng], noGoZones)

\* C36: no-go zones are a soft penalty, never a hard block: runAStar returns
\* a path with the zones of the request exactly when it returns a path with no
\* zones, also when every route to the goal passes through a zone and when the
\* start or the end cell lies inside one.
C36_ZonesNeverBlock ==
    pc = "returned" =>
        \A s \in DOMAIN info :
            info[s].outcome \in {"route", "noWaterPath"} =>
                (info[s].waterPathResult # Null
                    <=> runAStar(SearchStart(s), SearchEnd(s), landGrid, params,
                                 envCache, s, <<>>) # Null)

\* routes along the strait, whose only way to the goal crosses the zoned
\* second column, and whose price shows the penalty
C36_Witness ==
    /\ pc = "returned"
    /\ noGoZones = <<MidZone>>
    /\ \E n \in NodesOf(landGrid) : isLand(landGrid, n)
    /\ \A s \in DOMAIN info :
        /\ Routed(s)
        /\ Len(allPaths[s]) = 3
        /\ ~Zoned(allPaths[s][1]) /\ Zoned(allPaths[s][2]) /\ ~Zoned(allPaths[s][3])
        /\ info[s].waterPathResult[1].g
             > 50 * runAStar(SearchStart(s), SearchEnd(s), landGrid, params,
                             envCache, s, <<>>)[1].g

\* the node about to be popped, when its cell is not closed yet, carries the
\* g-score recorded for the cell, and no heap entry is cheaper than the
\* g-score recorded for its cell
PoppedIsRecorded(s) ==
    /\ Len(s.openSet) > 0 /\ Key(s.openSet[1]) \notin s.closedSet =>
        s.openSet[1].g = s.gScores[Key(s.openSet[1])]
    /\ \A k \in DOMAIN s.openSet :
        /\ Key(s.openSet[k]) \in DOMAIN s.gScores
        /\ s.gScores[Key(s.openSet[k])] <= s.openSet[k].g

\* the g-scores of the cells closed by the step from s to t are those of s
ClosedKept(s, t) ==
    \A key \in t.closedSet : key \in DOMAIN s.gScores /\ t.gScores[key] = s.gScores[key]

\* both hold in every iteration of the while loop from s on
RECURSIVE SettledFrom(_, _)
SettledFrom(s, strategy) ==
    IF s.done THEN TRUE
    ELSE LET t == AStarStep(s, SearchEnd(strategy), landGrid, params, envCache,
                            strategy, noGoZones)
         IN PoppedIsRecorded(s) /\ ClosedKept(s, t) /\ SettledFrom(t, strategy)

\* some iteration from s on lowers the recorded g-score of a cell, and a later
\* one pops the cheaper node for that cell while it is not closed
RECURSIVE LoweredFrom(_, _, _)
LoweredFrom(s, strategy, lowered) ==
    IF s.done \/ Len(s.openSet) = 0 THEN FALSE
    ELSE LET t == AStarStep(s, SearchEnd(strategy), landGrid, params, envCache,
                            strategy, noGoZones)
         IN \/ Key(s.openSet[1]) \in lowered \ s.closedSet
            \/ LoweredFrom(t, strategy,
                           lowered \cup {key \in DOMAIN s.gScores :
                                            t.gScores[key] < s.gScores[key]})

\* C37: in runAStar, whenever a node is popped for a cell that is not yet
\* closed, its g is the g-score recorded for the cell, the smallest g pushed
\* for it; and once a cell is closed its recorded g-score never changes.
C37_SettledScores ==
    pc = "returned" =>
        \A s \in DOMAIN info :
            info[s].aStarStartNode # Null => SettledFrom(SearchInit(s), s)

\* a search in which a cell was pushed twice, the second time cheaper, and was
\* expanded from the cheaper node
C37_Witness ==
    /\ pc = "returned"
    /\ Routed("balanced")
    /\ LoweredFrom(SearchInit("balanced"), "balanced", {})

\* C38: findPathToNearestWater returns a result for every land cell it is
\* started from whenever the grid has at least one water cell, also from a
\* cell enclosed by land, and returns null only when the grid has no water
\* cell at all; the result ends in a water cell.
C38_BridgeReachesWater ==
    pc = "returned" =>
        \A n \in NodesOf(landGrid) :
            isLand(landGrid, n) =>
                /\ findPathToNearestWater(n, landGrid) # Null
                     <=> \E w \in NodesOf(landGrid) : ~isLand(landGrid, w)
                /\ findPathToNearestWater(n, landGrid) # Null =>
                     ~isLand(landGrid, findPathToNearestWater(n, landGrid)[1].waterNode)

\* a request whose start cell has only land around it and is bridged to the
\* one water cell of the grid
C38_Witness ==
    /\ pc = "returned"
    /\ info["balanced"].startWaterInfo # Null
    /\ Len(info["balanced"].startWaterInfo[1].path) >= 3
    /\ isLand(landGrid, latLngToGrid(landGrid, startLatLng))
    /\ \A k \in DOMAIN getNeighbors(latLngToGrid(landGrid, startLatLng), landGrid) :
        isLand(landGrid, getNeighbors(latLngToGrid(landGrid, startLatLng), landGrid)[k])

\* how often a call occurs in the record of the handler's calls
CallsOf(name) == Cardinality({k \in DOMAIN info.calls : info.calls[k] = name})

\* C39: in the POST /api/route handler the environmental data is fetched
\* before any search: initialize() is attempted at most 3 times per request,
\* the attempts stop at the first success, findPath is invoked only after an
\* attempt has succeeded, and after 3 failed attempts the handler answers
\* with status 500 without invoking findPath.
C39_PrefetchRetries ==
    "attempts" \in DOMAIN info =>
        /\ CallsOf("initialize") <= maxRetries
        /\ CallsOf("initialize") = Len(info.attempts) + (IF pc = "initialize" THEN 1 ELSE 0)
        /\ \A k \in 1..(Len(info.attempts) - 1) : ~info.attempts[k]
        /\ info.attempts # <<>> /\ info.attempts[Len(info.attempts)] => pc = "responded"
        /\ CallsOf("findPath") <= 1
        /\ CallsOf("findPath") = 1 =>
            /\ info.attempts # <<>> /\ info.attempts[Len(info.attempts)]
            /\ info.calls[Len(info.calls)] = "findPath"
            /\ envCache # Null
        /\ CallsOf("findPath") = 0 => allPaths = <<>>
        /\ Len(info.attempts) = maxRetries /\ ~info.attempts[maxRetries] =>
            /\ pc = "responded"
            /\ info.response = [status |-> 500]
            /\ CallsOf("findPath") = 0

\* a request answered with routes after two failed attempts and a third that
\* succeeded
C39_Witness ==
    /\ "attempts" \in DOMAIN info
    /\ info.attempts = <<FALSE, FALSE, TRUE>>
    /\ info.calls = <<"initialize", "initialize", "initialize", "findPath">>
    /\ info.response.status = 200
    /\ \A s \in DOMAIN allPaths : allPaths[s] # <<>>

\* temporaryGrid || landGrid
GridChoice == IF info.temporaryGrid # Null THEN info.temporaryGrid ELSE landGrid

\* C40: a route request uses one grid from start to finish: the grid chosen
\* when the handler begins is the one given to the environmental cache, to the
\* three strategy searches and, with its bounds and resolution, to the
\* response, even if a temporary upload replaces the temporary grid while the
\* request waits for environmental data.
C40_OneGridPerRequest ==
    /\ [][/\ pc = "listening" /\ pc' = "initialize" =>
              info'.gridToUse = GridChoice /\ info'.cacheGrid = GridChoice
          /\ pc \in {"initialize", "retryDelay"} =>
              info'.gridToUse = info.gridToUse /\ info'.cacheGrid = info.cacheGrid]_vars
    /\ [](pc = "responded" /\ info.response.status = 200 =>
            /\ info.findPathGrid = info.gridToUse
            /\ allPaths = findPath(info.gridToUse, startLatLng, endLatLng, params,
                                   envCache, noGoZones)
            /\ info.response.bounds = info.gridToUse.bounds
            /\ info.response.resolution = info.gridToUse.resolution
            /\ \A s \in DOMAIN allPaths :
                Len(info.response.paths[s]) = Len(allPaths[s]))

\* a request answered from the grid it began with, after a retry, although
\* an upload during the wait installed a temporary grid on which the answer
\* would have been different
C40_Witness ==
    /\ pc = "responded"
    /\ "response" \in DOMAIN info
    /\ info.response.status = 200
    /\ Len(info.attempts) >= 2
    /\ info.temporaryGrid # Null
    /\ info.temporaryGrid # info.gridToUse
    /\ allPaths # findPath(info.temporaryGrid, startLatLng, endLatLng, params,
                           envCache, noGoZones)
    /\ \A s \in DOMAIN allPaths : allPaths[s] # <<>>

=============================================================================
